---- MODULE Spec2Model ----
(***************************************************************************)
(* Model of the rita event store (eventstore.go) on top of a JetStream     *)
(* stream.  The stream is the only shared mutable state; every caller      *)
(* (process) runs Append, Load or Evolve, one collaborator round trip per  *)
(* step.                                                                   *)
(***************************************************************************)
EXTENDS Integers, Sequences, FiniteSets, TLC

\* ------------------------------------------------------------------ bounds
\* Largest number of messages the stream holds.
MaxSeq == 3
\* Largest batch handed to one Append call.
MaxBatch == 2
\* Largest number of descriptors handed to one NewRegistry call.
MaxTypes == 2
\* Largest number of values a registry's Init functions allocate for callers.
MaxHeap == 2
\* Largest number of identities id.New() hands out: one for every message the
\* stream can hold and one for an event that was not stored.
MaxIds == MaxSeq + 1

\* ------------------------------------------------------------- input sets
Procs == {"p1", "p2", "p3"}
\* The caller whose EventStore was built without a type registry (New(nc)).
Bare == "p3"
HasTypes(p) == p # Bare
Keys == {"orders.1", "orders.2"}
Wildcard == "orders.*"
Subjects == Keys \cup {Wildcard}
\* Identities a caller supplies; "" is the unset identity.
CallerIds == {"a"}
\* Shapes of the payloads handed to Append; BadOrder implements Validate and
\* its Validate fails.
Payloads == {"OrderPlaced", "OrderShipped", "BadOrder"}
\* Pre-encoded payloads ([]byte values).
ByteValues == {"hello"}
\* Event.Meta of an event without metadata, and the metadata of the tests.
NoMeta == <<>>
GeoMeta == [geo |-> "eu"]
\* An Event as a caller builds it: "" is the unset ID, Type and payload, and
\* the zero Time.
EventOf(id, type, time, data, meta) ==
    [ID |-> id, Type |-> type, Time |-> time, Data |-> data, Meta |-> meta]
Event(id, data) == EventOf(id, "", "", data, NoMeta)
EventInputs ==
    {Event("", "OrderPlaced"), Event("", "OrderShipped"), Event("a", "OrderPlaced"),
     Event("", "BadOrder")}
\* The absent optional value (a nil *uint64).
Nil == -1
SeqOpts == {Nil} \cup (0 .. MaxSeq)
\* What the projection of an Evolve call rejects ("" rejects nothing).
FailOns == {"", "OrderPlaced", "OrderShipped"}

\* ------------------------------------------------------------- error values
ErrSequenceConflict == "rita: sequence conflict"
ErrNoTypeForStruct == "rita: no type for struct"
ErrTypeNotRegistered == "rita: type not registered"
ErrValidate == "validate: bad order"
ErrEvolve == "evolve: rejected"
ErrWrongLastSequence == "nats: wrong last sequence"
ErrStartSequence == "nats: optional start sequence is not set"
ErrNoStreamResponse == "nats: no response from stream"
ErrStreamNotFound == "nats: stream not found"
ErrNoMatchingStream == "nats: no stream matches subject"
ErrNilDeref == "panic: nil pointer dereference"
ErrEventTypeRequired == "rita: event type required"
ErrConnectionClosed == "nats: connection closed"
ErrCanceled == "context canceled"
ErrTypeNotDefined == "event type is not defined"
ErrWrongType == "wrong type for event data"
ErrDataNil == "event data is nil"
ErrNotBytes == "value not []byte"
ErrCodecNotRegistered == "rita: codec not registered"
ErrUnmarshalBytes == "json: cannot unmarshal into Go value of type []uint8"
ErrJsonSyntax == "invalid character looking for beginning of value"
ErrNotProto == "proto: not a proto.Message"
ErrMsgpackDecode == "msgpack: invalid code decoding bytes length"

\* stream, proc and ret are the event stores' side: the collaborator's log,
\* the callers and what the last call returned.  reg is the type registry a
\* caller constructed last (NoRegistry before), rout what the last call on
\* the type registry returned, heap the number of values the registry's
\* factories have allocated for callers.  store holds the EventStore handles
\* the callers share, each with its Rita configuration, admin the last
\* Create, Update or Delete call with what it submitted to the collaborator.
\* nuid is the number of identities id.New() has handed out, exists whether
\* the stream of the stores exists.
VARIABLES stream, proc, ret, reg, rout, heap, store, admin, nuid, exists

vars == <<stream, proc, ret, reg, rout, heap, store, admin, nuid, exists>>

\* ------------------------------------------------------------ type registry
\* The registry of the tests: name -> shape produced by the factory.
RegistryTypes ==
    [n \in {"order-placed", "order-shipped", "bad-order"} |->
        CASE n = "order-placed" -> "OrderPlaced"
          [] n = "order-shipped" -> "OrderShipped"
          [] OTHER -> "BadOrder"]

\* Registry.Lookup: the registered name of a value's shape.
Lookup(v) ==
    IF \E n \in DOMAIN RegistryTypes : RegistryTypes[n] = v
    THEN [name |-> CHOOSE n \in DOMAIN RegistryTypes : RegistryTypes[n] = v, err |-> ""]
    ELSE [name |-> "", err |-> ErrNoTypeForStruct]

\* Registry.Init: a fresh value of the registered name.
RegistryInit(t) ==
    IF t \in DOMAIN RegistryTypes
    THEN [v |-> RegistryTypes[t], err |-> ""]
    ELSE [v |-> "", err |-> ErrTypeNotRegistered]

\* The payload's optional Validate method.
Validate(v) == IF v = "BadOrder" THEN ErrValidate ELSE ""

\* Registry.Marshal with the default (json) codec.
Marshal(v) ==
    LET l == Lookup(v)
    IN  IF l.err # "" THEN [b |-> <<>>, err |-> l.err]
        ELSE [b |-> <<"json", v>>, err |-> ""]

\* codec.Unmarshal of a body into the value initialised for the type.
Unmarshal(b, v) == IF Len(b) = 2 /\ b[1] = "json" /\ b[2] = v THEN v ELSE "?"

\* c.Unmarshal(msg.Data, v) of the codec named c into the value initialised
\* for the type, a pointer to a plain struct: the binary codec refuses a
\* value that is neither a BinaryUnmarshaler nor a byte slice, the protobuf
\* codec one that is not a proto.Message, the json codec leaves the value as
\* it is when there are no bytes, and the json and msgpack codecs refuse
\* bytes of another encoding.  ("?" is the value that does not hold the
\* payload.)
ErrMustBeBytes == "value must be *[]byte"
ErrDecodeData == "codec: cannot decode data"
UnmarshalData(c, b, v) ==
    IF c = "binary" THEN [v |-> "?", err |-> ErrMustBeBytes]
    ELSE IF c = "protobuf" THEN [v |-> "?", err |-> ErrNotProto]
    ELSE IF c = "json" /\ b = <<>> THEN [v |-> "?", err |-> ""]
    ELSE IF Len(b) # 2 \/ b[1] # c THEN [v |-> "?", err |-> ErrDecodeData]
    ELSE [v |-> Unmarshal(<<"json", b[2]>>, v), err |-> ""]

\* codec.Binary.Marshal: a byte slice is its own encoding.
BinaryMarshal(v) ==
    IF v \in ByteValues THEN [b |-> <<"binary", v>>, err |-> ""]
    ELSE [b |-> <<>>, err |-> ErrNotBytes]

\* The codecs by name (codec.Codecs).
Codecs == {"binary", "json", "msgpack", "protobuf"}

\* Codec.Unmarshal of a body into a byte slice ("" is the empty slice).  The
\* binary codec copies the bytes whatever they are: the bytes a binary
\* Marshal wrote are the payload, any other body is returned as it is.  The
\* json codec leaves the slice empty when there are no bytes, refuses an
\* encoded object and bytes that are not JSON; the protobuf codec refuses a
\* target that is not a proto.Message, the msgpack codec bytes that do not
\* encode a byte string.
UnmarshalBytes(c, b) ==
    CASE c = "binary" ->
            [v |-> IF Len(b) = 2 /\ b[1] = "binary" THEN b[2] ELSE b, err |-> ""]
      [] c = "json" ->
            IF b = <<>> THEN [v |-> "", err |-> ""]
            ELSE IF Len(b) = 2 /\ b[1] = "json" THEN [v |-> "", err |-> ErrUnmarshalBytes]
            ELSE [v |-> "", err |-> ErrJsonSyntax]
      [] c = "protobuf" -> [v |-> "", err |-> ErrNotProto]
      [] OTHER -> [v |-> "", err |-> ErrMsgpackDecode]

\* --------------------------------------------- type registry construction
ErrTypeNotValid == "rita: type not valid"
ErrJsonUnsupported == "json: unsupported type"
ErrDecode == "codec: cannot decode"

\* Type names are sequences of characters; WordChars stands for the class
\* [\w-] of nameRegex.
WordChars == {"a", "b", "-", "_"}
TypeNames ==
    {<<>>, <<"a">>, <<"b">>, <<"a", ".", "b">>, <<"a", " ">>, <<"a", ".">>}

\* nameRegex ^[\w-]+(\.[\w-]+)*$ : non-empty runs of word characters
\* separated by single dots.
nameRegex(n) ==
    /\ Len(n) > 0
    /\ \A i \in 1 .. Len(n) : n[i] \in WordChars \cup {"."}
    /\ n[1] # "." /\ n[Len(n)] # "."
    /\ \A i \in 1 .. Len(n) - 1 : ~(n[i] = "." /\ n[i + 1] = ".")

\* validateTypeName
validateTypeName(n) == IF nameRegex(n) THEN "" ELSE ErrTypeNotValid

\* Go values as far as the registry looks at them: nil, or a value of a
\* shape, held directly or through a pointer, with its content (0 is the
\* zero content) and, for a pointer, what it points to (addr).  The shapes:
\* A a plain struct, B a struct with a channel, P a protobuf message that
\* also implements the binary marshalling interfaces, int not a struct.
NilValue == [kind |-> "nil"]
Value(ptr, shape, val, addr) ==
    [kind |-> "value", ptr |-> ptr, shape |-> shape, val |-> val, addr |-> addr]
StructShapes == {"A", "B", "P"}
Contents == {0, 1}

\* reflect.TypeOf(v), rt.Kind() and rt.Elem()
TypeOf(v) == IF v.kind = "nil" THEN <<"nil">> ELSE <<v.ptr, v.shape>>
IsPtr(rt) == Len(rt) = 2 /\ rt[1]
Elem(rt) == <<FALSE, rt[2]>>
IsStruct(rt) == Len(rt) = 2 /\ ~rt[1] /\ rt[2] \in StructShapes

\* A type descriptor is its Init function: absent, or a function that
\* returns nil or allocates a value, the zero value of its type or, for the
\* message type, one with fields set to defaults.
NoInit == [defined |-> FALSE]
Makes(v) == [defined |-> TRUE, product |-> v]
Factories ==
    {NoInit, Makes(NilValue), Makes(Value(TRUE, "A", 0, 0)),
     Makes(Value(FALSE, "A", 0, 0)), Makes(Value(TRUE, "B", 0, 0)),
     Makes(Value(TRUE, "int", 0, 0)), Makes(Value(TRUE, "P", 0, 0)),
     Makes(Value(TRUE, "P", 1, 0))}

\* typ.Init(): the value the function makes, at the address addr.
Call(f, addr) ==
    IF f.product.kind = "nil" THEN NilValue ELSE [f.product EXCEPT !.addr = addr]

\* Whether v implements proto.Message, encoding.BinaryMarshaler and
\* encoding.BinaryUnmarshaler (methods of *pb.A).
IsProto(v) == v.kind = "value" /\ v.ptr /\ v.shape = "P"

\* proto.Marshal of content x: a message with no field set has no bytes.
ProtoBytes(x) == IF x = 0 THEN <<>> ELSE <<"protobuf", x>>

\* Codec.Marshal of the codec named c: the encoding of the content (Nil is
\* the encoding of nil, JSON's null).  The msgpack codec encodes a value
\* through MarshalBinary when the pointer to its type has the method, and
\* refuses such a value when it is held directly (it cannot take its
\* address); the protobuf codec, and the binary codec through MarshalBinary,
\* write what proto.Marshal returns.
ErrMsgpackUnsupported == "msgpack: Encode(unsupported chan int)"
ErrMsgpackNonAddressable == "msgpack: Encode(non-addressable pb.A)"
CodecMarshal(c, v) ==
    CASE c = "json" ->
            IF v.kind = "nil" THEN [b |-> <<c, Nil>>, err |-> ""]
            ELSE IF v.shape = "B" THEN [b |-> <<>>, err |-> ErrJsonUnsupported]
            ELSE [b |-> <<c, v.val>>, err |-> ""]
      [] c = "msgpack" ->
            IF v.kind = "nil" THEN [b |-> <<c, Nil>>, err |-> ""]
            ELSE IF v.shape = "B" THEN [b |-> <<>>, err |-> ErrMsgpackUnsupported]
            ELSE IF v.shape = "P" /\ ~v.ptr
            THEN [b |-> <<>>, err |-> ErrMsgpackNonAddressable]
            ELSE [b |-> <<c, v.val>>, err |-> ""]
      [] c = "protobuf" ->
            IF IsProto(v) THEN [b |-> ProtoBytes(v.val), err |-> ""]
            ELSE [b |-> <<>>, err |-> ErrNotProto]
      [] OTHER ->
            IF IsProto(v) THEN [b |-> ProtoBytes(v.val), err |-> ""]
            ELSE [b |-> <<>>, err |-> ErrNotBytes]

\* The encoding a codec reads: the binary codec hands the bytes to the
\* value's UnmarshalBinary, which for *pb.A is proto.Unmarshal.
Encoding(c) == IF c = "binary" THEN "protobuf" ELSE c

\* Codec.Unmarshal of the codec named c into v: v with the decoded content.
\* The protobuf codec refuses a value that is not a proto.Message and the
\* binary codec one that is neither a BinaryUnmarshaler nor a *[]byte;
\* proto.Unmarshal resets the message before it reads, so that no bytes
\* leave the empty message and bytes it cannot read leave it empty with the
\* error.  The json codec leaves v as it is when there are no bytes; json and
\* msgpack refuse bytes that are not theirs and a target that is no pointer
\* before they touch it; null leaves what a pointer points to (json) or
\* resets it (msgpack); an object assigns the fields it has, and the zero
\* content is written without fields ({}); the msgpack codec reads a *pb.A
\* through UnmarshalBinary, that is proto.Unmarshal.
CodecUnmarshal(c, b, v) ==
    IF c \in {"protobuf", "binary"}
    THEN IF ~IsProto(v)
         THEN [v |-> v, err |-> IF c = "protobuf" THEN ErrNotProto ELSE ErrMustBeBytes]
         ELSE IF b = <<>> THEN [v |-> [v EXCEPT !.val = 0], err |-> ""]
         ELSE IF Len(b) # 2 \/ b[1] # Encoding(c) \/ b[2] \notin Contents
         THEN [v |-> [v EXCEPT !.val = 0], err |-> ErrDecode]
         ELSE [v |-> [v EXCEPT !.val = b[2]], err |-> ""]
    ELSE IF b = <<>>
    THEN [v |-> v, err |-> IF c = "json" THEN "" ELSE ErrDecode]
    ELSE IF v.kind = "nil" \/ ~v.ptr \/ Len(b) # 2 \/ b[1] # c
    THEN [v |-> v, err |-> ErrDecode]
    ELSE IF b[2] = Nil
    THEN [v |-> IF c = "json" THEN v ELSE [v EXCEPT !.val = 0], err |-> ""]
    ELSE IF b[2] \notin Contents \/ v.shape \notin StructShapes
    THEN [v |-> v, err |-> ErrDecode]
    ELSE IF c = "msgpack" /\ v.shape = "P"
    THEN [v |-> [v EXCEPT !.val = b[2]], err |-> ""]
    ELSE [v |-> [v EXCEPT !.val = IF b[2] = 0 THEN @ ELSE b[2]], err |-> ""]

\* validate: "Ensure [de]serialization works in the base case".
CodecCheck(c, v) ==
    IF CodecMarshal(c, v).err # "" THEN ErrTypeNotValid
    ELSE IF CodecUnmarshal(c, CodecMarshal(c, v).b, v).err # "" THEN ErrTypeNotValid
    ELSE ""

\* Registry.validate
validate(r, name, typ) ==
    IF name = <<>> THEN ErrTypeNotValid
    ELSE IF validateTypeName(name) # "" THEN validateTypeName(name)
    ELSE IF ~typ.defined THEN ErrTypeNotValid
    ELSE IF Call(typ, 0) = NilValue THEN ErrTypeNotValid
    ELSE IF ~IsPtr(TypeOf(Call(typ, 0))) THEN ErrTypeNotValid
    ELSE IF ~IsStruct(Elem(TypeOf(Call(typ, 0)))) THEN ErrTypeNotValid
    ELSE CodecCheck(r.codec, Call(typ, 0))

\* m[k] = v
Put(m, k, v) == [x \in DOMAIN m \cup {k} |-> IF x = k THEN v ELSE m[x]]

\* addType recording the pointer type only.
addTypePointerOnly(r, name, typ) ==
    [r EXCEPT !.types = Put(@, name, typ),
              !.rtypes = Put(@, TypeOf(Call(typ, 0)), name)]

\* Registry.addType
addType(r, name, typ) ==
    [r EXCEPT !.types = Put(@, name, typ),
              !.rtypes = Put(Put(@, TypeOf(Call(typ, 0)), name),
                             Elem(TypeOf(Call(typ, 0))), name)]

\* The registry that does not exist (a nil *Registry).
NoRegistry == [codec |-> "", types |-> <<>>, rtypes |-> <<>>]

\* The Codec option: the codec named, "" standing for no option (the
\* default codec).
DefaultCodec == "json"
CodecOption(name) ==
    IF name = "" THEN [codec |-> DefaultCodec, err |-> ""]
    ELSE IF name \notin Codecs THEN [codec |-> "", err |-> ErrCodecNotRegistered]
    ELSE [codec |-> name, err |-> ""]

\* NewRegistry keeping what it has registered when a descriptor is refused.
NewRegistryFailedPartial(r) == r

\* "return nil, err"
NewRegistryFailed(r) == NoRegistry

\* The loop of NewRegistry over the descriptors, order being the order in
\* which the map hands them out.
RECURSIVE NewRegistryLoop(_, _, _, _)
NewRegistryLoop(r, types, order, i) ==
    IF i > Len(order) THEN [r |-> r, err |-> ""]
    ELSE LET err == validate(r, order[i], types[order[i]])
         IN  IF err # "" THEN [r |-> NewRegistryFailed(r), err |-> err]
             ELSE NewRegistryLoop(addType(r, order[i], types[order[i]]),
                                  types, order, i + 1)

\* NewRegistry(types, opts...)
NewRegistry(types, order, codecName) ==
    IF CodecOption(codecName).err # ""
    THEN [r |-> NoRegistry, err |-> CodecOption(codecName).err]
    ELSE NewRegistryLoop([codec |-> CodecOption(codecName).codec, types |-> <<>>,
                          rtypes |-> <<>>], types, order, 1)

\* Registry.Init returning the value made when the type was added.
InitInCached(r, t, addr) ==
    IF t \notin DOMAIN r.types THEN [v |-> NilValue, err |-> ErrTypeNotRegistered]
    ELSE [v |-> Call(r.types[t], 0), err |-> ""]

\* Registry.Init: the function of the named type is called.
InitIn(r, t, addr) ==
    IF t \notin DOMAIN r.types THEN [v |-> NilValue, err |-> ErrTypeNotRegistered]
    ELSE [v |-> Call(r.types[t], addr), err |-> ""]

\* Registry.Lookup
LookupIn(r, v) ==
    IF TypeOf(v) \notin DOMAIN r.rtypes THEN [name |-> <<>>, err |-> ErrNoTypeForStruct]
    ELSE [name |-> r.rtypes[TypeOf(v)], err |-> ""]

\* Registry.Marshal; calls is the number of calls of the codec.
MarshalIn(r, v) ==
    IF LookupIn(r, v).err # "" THEN [b |-> <<>>, err |-> LookupIn(r, v).err, calls |-> 0]
    ELSE [b |-> CodecMarshal(r.codec, v).b, err |-> CodecMarshal(r.codec, v).err,
          calls |-> 1]

\* Registry.Unmarshal
UnmarshalIn(r, b, v) ==
    IF LookupIn(r, v).err # "" THEN [v |-> v, err |-> LookupIn(r, v).err, calls |-> 0]
    ELSE [v |-> CodecUnmarshal(r.codec, b, v).v, err |-> CodecUnmarshal(r.codec, b, v).err,
          calls |-> 1]

\* Registry.UnmarshalType
UnmarshalTypeIn(r, b, t, addr) ==
    IF InitIn(r, t, addr).err # ""
    THEN [v |-> NilValue, err |-> InitIn(r, t, addr).err]
    ELSE IF UnmarshalIn(r, b, InitIn(r, t, addr).v).err # ""
    THEN [v |-> NilValue, err |-> UnmarshalIn(r, b, InitIn(r, t, addr).v).err]
    ELSE [v |-> UnmarshalIn(r, b, InitIn(r, t, addr).v).v, err |-> ""]

\* What the last call on the type registry returned (NoOut before any).
NoOut == [op |-> "none"]

\* ---------------------------------------------------------------- envelope
\* id.New(): nuid.Next() never returns the same identity twice, and none a
\* caller chose.  The n identities handed out so far are the first n names.
NuidNames ==
    <<"nuid-01", "nuid-02", "nuid-03", "nuid-04", "nuid-05", "nuid-06", "nuid-07",
      "nuid-08", "nuid-09", "nuid-10", "nuid-11", "nuid-12", "nuid-13", "nuid-14",
      "nuid-15", "nuid-16", "nuid-17", "nuid-18", "nuid-19", "nuid-20">>
NewId(n) == NuidNames[n + 1]

\* clock.Now().Local()
Now == "now"

\* wrapEvent taking an explicit type name as it is.
ResolveTypeUnchecked(type, name) ==
    [t |-> IF type = "" THEN name ELSE type, err |-> ""]

\* wrapEvent with a registry: an empty Type becomes the registered name of
\* the payload's shape, an explicit Type must be that name.
ResolveType(type, name) ==
    IF type = "" THEN [t |-> name, err |-> ""]
    ELSE IF type # name THEN [t |-> type, err |-> ErrWrongType]
    ELSE [t |-> type, err |-> ""]

\* wrapEvent giving every event a generated identity.
DefaultIDAlways(id, fresh) == fresh

\* Set ID if empty; set time if empty.
DefaultID(id, fresh) == IF id = "" THEN fresh ELSE id
DefaultTime(time, now) == IF time = "" THEN now ELSE time

\* EventStore.wrapEvent: type resolution (types tells whether a type registry
\* is configured), validation, defaults.  The payload "" is the nil payload;
\* the event is changed in place.
wrapEvent(types, event, fresh) ==
    LET l == Lookup(event.Data)
        rt == ResolveType(event.Type, l.name)
        t == IF types THEN rt.t ELSE event.Type
    IN  IF event.Data = "" THEN [err |-> ErrDataNil, event |-> event]
        ELSE IF ~types /\ event.Type = ""
        THEN [err |-> ErrTypeNotDefined, event |-> event]
        ELSE IF types /\ l.err # "" THEN [err |-> l.err, event |-> event]
        ELSE IF types /\ rt.err # "" THEN [err |-> rt.err, event |-> event]
        ELSE IF Validate(event.Data) # ""
        THEN [err |-> Validate(event.Data), event |-> [event EXCEPT !.Type = t]]
        ELSE [err |-> "",
              event |-> [event EXCEPT
                            !.ID = DefaultID(event.ID, fresh),
                            !.Type = t,
                            !.Time = DefaultTime(event.Time, Now)]]

\* packEvent leaving the Nats-Msg-Id header unset.
MsgIdHdrUnset(event) == ""

\* Time.Format(eventTimeFormat) and time.Parse(eventTimeFormat, _).
eventTimeFormat == "RFC3339Nano"
FormatTime(t) == <<eventTimeFormat, t>>
ParseTime(h) ==
    IF Len(h) = 2 /\ h[1] = eventTimeFormat THEN [t |-> h[2], err |-> ""]
    ELSE [t |-> "", err |-> "unpack: failed to parse event time"]

\* The Nats-Msg-Id header packEvent sets.
MsgIdHdr(event) == event.ID

\* Header names are a prefix and a rest: the metadata entry k travels in the
\* header eventMetaPrefixHdr + k, the envelope headers have names that do not
\* start with that prefix.
eventMetaPrefixHdr == "rita-meta-"
MetaHdr(k) == <<eventMetaPrefixHdr, k>>
MetaHeaders(meta) == [h \in {MetaHdr(k) : k \in DOMAIN meta} |-> meta[h[2]]]
EnvelopeHdrs ==
    {<<"", "Nats-Msg-Id">>, <<"", "rita-type">>, <<"", "rita-time">>, <<"", "rita-codec">>}

\* msg.Header: the envelope headers and the metadata headers of a message.
Header(msg) ==
    [h \in EnvelopeHdrs \cup DOMAIN msg.meta |->
        CASE h = <<"", "Nats-Msg-Id">> -> msg.id
          [] h = <<"", "rita-type">> -> msg.type
          [] h = <<"", "rita-time">> -> msg.time
          [] h = <<"", "rita-codec">> -> msg.codec
          [] OTHER -> msg.meta[h]]

\* unpackEvent taking every header for a metadata entry.
MetaOfAll(hdrs) ==
    [k \in {h[2] : h \in DOMAIN hdrs} |-> hdrs[CHOOSE h \in DOMAIN hdrs : h[2] = k]]

\* The metadata read back: the headers whose name starts with the prefix,
\* keyed by the rest of the name.
MetaOf(hdrs) ==
    [k \in {h[2] : h \in {g \in DOMAIN hdrs : g[1] = eventMetaPrefixHdr}} |->
        hdrs[MetaHdr(k)]]

\* EventStore.packEvent: the message published for an event.  expLast is the
\* Nats-Expected-Last-Subject-Sequence header the publish options add.
\* tail, retSeq and in are not part of the message: they record whether the
\* event was the last of its batch, what the Append that published it
\* returned (Nil until it returns) and the event as the caller passed it.
packEvent(types, subject, event, expLast) ==
    LET m == IF types THEN Marshal(event.Data) ELSE BinaryMarshal(event.Data)
    IN  [err |-> m.err,
         msg |-> [subject |-> subject, id |-> MsgIdHdr(event), type |-> event.Type,
                  time |-> FormatTime(event.Time),
                  codec |-> IF types THEN "json" ELSE "binary", data |-> m.b,
                  meta |-> MetaHeaders(event.Meta),
                  expLast |-> expLast, tail |-> FALSE, retSeq |-> Nil,
                  in |-> event]]

\* unpackEvent decoding with the codec of the store's registry.
codecOfRegistry(msg) == "json"

\* unpackEvent: codecName := msg.Header.Get(eventCodecHdr)
codecOfHeader(msg) == msg.codec

\* EventStore.unpackEvent: the Event rebuilt from a stored message.  With a
\* registry the failure to decode the body is lost (it is assigned to a
\* variable of the inner block) and the initialised value is returned.
unpackEvent(types, msg, seq) ==
    LET v == RegistryInit(msg.type)
        b == UnmarshalBytes(codecOfHeader(msg), msg.data)
        d == UnmarshalData(codecOfHeader(msg), msg.data, v.v)
        t == ParseTime(msg.time)
    IN  IF codecOfHeader(msg) \notin Codecs
        THEN [err |-> ErrCodecNotRegistered, event |-> <<>>]
        ELSE IF types /\ v.err # "" THEN [err |-> v.err, event |-> <<>>]
        ELSE IF ~types /\ b.err # "" THEN [err |-> b.err, event |-> <<>>]
        ELSE IF t.err # "" THEN [err |-> t.err, event |-> <<>>]
        ELSE [err |-> "",
              event |-> [ID |-> msg.id, Type |-> msg.type, Time |-> t.t,
                         Data |-> IF types THEN d.v ELSE b.v,
                         Meta |-> MetaOf(Header(msg)),
                         Subject |-> msg.subject, Sequence |-> seq]]

\* ------------------------------------------------------------ collaborator
\* Subject matching of the stream: a literal key or the one-token wildcard.
Matches(subject, filter) == filter = subject \/ filter = Wildcard

\* Sequences of the stored messages that match a subject filter.
SeqsOf(s, filter) == {k \in 1 .. Len(s) : Matches(s[k].subject, filter)}

Max(S) == CHOOSE x \in S : \A y \in S : y <= x
Min(S) == CHOOSE x \in S : \A y \in S : x <= y

\* $JS.API.STREAM.MSG.GET with last_by_subj: the reply of the server.
MsgGet(s, filter) ==
    IF SeqsOf(s, filter) = {}
    THEN [code |-> 404, seq |-> 0]
    ELSE [code |-> 0, seq |-> Max(SeqsOf(s, filter))]

\* JetStream publish: de-duplication by message id first, then the
\* expected-last-sequence-per-subject precondition, then the store.
Publish(s, msg) ==
    IF msg.id # "" /\ \E k \in 1 .. Len(s) : s[k].id = msg.id
    THEN [err |-> "", seq |-> CHOOSE k \in 1 .. Len(s) : s[k].id = msg.id,
          dup |-> TRUE, stream |-> s]
    ELSE IF msg.expLast # Nil /\ MsgGet(s, msg.subject).seq # msg.expLast
    THEN [err |-> ErrWrongLastSequence, seq |-> 0, dup |-> FALSE, stream |-> s]
    ELSE [err |-> "", seq |-> Len(s) + 1, dup |-> FALSE, stream |-> Append(s, msg)]

\* Ordered consumer: the next message delivered at or after the cursor.
HasNext(s, filter, cursor) == \E k \in SeqsOf(s, filter) : k >= cursor
NextSeq(s, filter, cursor) == Min({k \in SeqsOf(s, filter) : k >= cursor})

\* ----------------------------------------------------------------- publish
\* nats.ExpectStream(s.name)
ExpectStream(name) == name

\* The last PublishMsg call of an Append: the position in the batch of the
\* event it published, that event's identity, and of the request the
\* Nats-Msg-Id header, the expected last sequence of the subject and the
\* expected stream (NoPub before the first).
PubRequest(i, event, msg, expStream) ==
    [i |-> i, eventId |-> event.ID, msgId |-> msg.id, expLast |-> msg.expLast,
     expStream |-> expStream]
NoPub == [i |-> Nil, eventId |-> "", msgId |-> "", expLast |-> Nil, expStream |-> ""]

\* ----------------------------------------------------------------- handles
\* The callers with a type registry share one EventStore handle, the caller
\* without one has its own.
StreamName == "orders"
HandleOf(p) == IF HasTypes(p) THEN "typed" ELSE "bare"

\* rt.EventStore(name) of the Rita that New(nc, opts...) returned.
EventStore(h) ==
    [name |-> StreamName,
     rt |-> [nc |-> "nc", js |-> "js", id |-> "id.NUID", clock |-> "clock.Time",
             types |-> h = "typed"]]

\* A handle that remembers the sequence of the last acknowledgement.
StoreCaching(h, c) == [name |-> h.name, rt |-> h.rt, lastSeq |-> c.ack]

\* The handle after a step of the call c on it: Append, Load and Evolve
\* assign to no field of the EventStore or of its Rita.
StoreAfter(h, c) == h

\* ---------------------------------------------------- stream administration
ErrStream == "nats: stream error"

\* An *EventStoreConfig: nil, or a pointer to the five fields.
EventStoreConfig(description, subjects, storage, replicas, placement) ==
    [nil |-> FALSE, Description |-> description, Subjects |-> subjects,
     Storage |-> storage, Replicas |-> replicas, Placement |-> placement]
ZeroConfig == EventStoreConfig("", <<>>, "file", 0, "nil")
NilConfig == [ZeroConfig EXCEPT !.nil = TRUE]
Configs ==
    {NilConfig} \cup
    {EventStoreConfig(d, sub, st, r, pl) :
        d \in {"", "orders of the shop"},
        sub \in {<<>>, <<"orders.>">>, <<"orders.*">>, <<"orders.>", "returns.>">>},
        st \in {"file", "memory"}, r \in {0, 1, 3}, pl \in {"nil", "cluster-a"}}

\* Create: "if config == nil { config = &EventStoreConfig{} }"
OrZero(config) == IF config.nil THEN ZeroConfig ELSE config

\* Create: the subjects, defaulting to "<name>.>".
CreateSubjects(name, config) ==
    IF Len(config.Subjects) = 0 THEN <<name \o ".>">> ELSE config.Subjects

\* A stream configuration that leaves deletion and purging allowed.
StreamConfigPlain(name, config, subjects) ==
    [Name |-> name, Description |-> config.Description, Subjects |-> subjects,
     Storage |-> config.Storage, Replicas |-> config.Replicas,
     Placement |-> config.Placement, DenyDelete |-> FALSE, DenyPurge |-> FALSE]

\* The nats.StreamConfig that Create and Update build.
StreamConfig(name, config, subjects) ==
    [Name |-> name, Description |-> config.Description, Subjects |-> subjects,
     Storage |-> config.Storage, Replicas |-> config.Replicas,
     Placement |-> config.Placement, DenyDelete |-> TRUE, DenyPurge |-> TRUE]

\* No call yet, and the configuration of a call that submitted none.
NoSubmit == [Name |-> ""]
NoAdmin == [op |-> "none", config |-> NilConfig, sent |-> NoSubmit, err |-> ""]

\* s.Create(config): AddStream answers with err.
CreateCall(p, config, err) ==
    /\ admin' = [op |-> "Create", config |-> config,
                 sent |-> StreamConfig(store[HandleOf(p)].name, OrZero(config),
                             CreateSubjects(store[HandleOf(p)].name, OrZero(config))),
                 err |-> err]
    /\ exists' = (exists \/ err = "")
    /\ UNCHANGED <<stream, proc, ret, reg, rout, heap, store, nuid>>

\* s.Update(config): UpdateStream answers with err, or with "stream not
\* found" when there is none; a nil config is dereferenced before anything
\* is submitted.
UpdateCall(p, config, err) ==
    /\ admin' = IF config.nil
                THEN [op |-> "Update", config |-> config, sent |-> NoSubmit,
                      err |-> ErrNilDeref]
                ELSE [op |-> "Update", config |-> config,
                      sent |-> StreamConfig(store[HandleOf(p)].name, config,
                                            config.Subjects),
                      err |-> IF ~exists /\ err = "" THEN ErrStreamNotFound ELSE err]
    /\ UNCHANGED <<stream, proc, ret, reg, rout, heap, store, nuid, exists>>

\* The messages the consumer of call c has still to deliver, in order, and
\* the first n of them as the subscription holds them.
Pending(s, c) == {k \in SeqsOf(s, c.subject) : k >= c.cursor}
Pushed(s, c, n) ==
    [i \in 1 .. n |->
        LET k == CHOOSE x \in Pending(s, c) :
                    Cardinality({y \in Pending(s, c) : y < x}) = i - 1
        IN  [seq |-> k, msg |-> s[k]]]

\* s.Delete(): DeleteStream(s.name) answers with err, or with "stream not
\* found" when there is none; a stream that is deleted is gone with every
\* message it held, those of calls in progress included, and with the
\* consumers of the subscriptions that read it: a subscription keeps the
\* messages its consumer had pushed to it by then, any number of those it
\* had still to deliver.  A subscription whose stream was deleted before has
\* no consumer any more: it keeps what it holds, whatever stream was created
\* and is deleted since.
DeleteCall(p, err) ==
    \E answer \in {IF ~exists /\ err = "" THEN ErrStreamNotFound ELSE err} :
    \E pushed \in [Procs -> 0 .. Len(stream)] :
        /\ \A q \in Procs :
              pushed[q] <= IF answer = "" /\ proc[q].subscribed /\ ~proc[q].gone
                           THEN Cardinality(Pending(stream, proc[q])) ELSE 0
        /\ admin' = [op |-> "Delete", config |-> NilConfig,
                     sent |-> [Name |-> store[HandleOf(p)].name], err |-> answer]
        /\ exists' = (exists /\ answer # "")
        /\ stream' = IF answer = "" THEN <<>> ELSE stream
        /\ proc' = IF answer = ""
                   THEN [q \in Procs |->
                           [proc[q] EXCEPT !.wrote = {}, !.gone = proc[q].subscribed,
                                           !.queue = IF proc[q].gone THEN @
                                                     ELSE Pushed(stream, proc[q],
                                                                 pushed[q])]]
                   ELSE proc
        /\ UNCHANGED <<ret, reg, rout, heap, store, nuid>>

\* ------------------------------------------------------------------- state
\* A caller between calls, and the fields of a call in progress.  The fields
\* from published on record what the call did and saw: the number and the
\* sequences of the messages it stored, the outcome of its first publish, the
\* identity of the last event it wrapped, the last sequence of the subject when
\* it first published, whether it opened a subscription, and the length of the
\* stream when it looked up the last message.  basis is the last sequence a
\* Load of basisSubject returned to this caller just before, basisLen the
\* length of the stream at that lookup, and intervened whether the subject got
\* a message between that lookup and the first publish of the call.  gone
\* tells that the stream was deleted under the subscription of the call, and
\* queue holds the messages that had been pushed to the subscription by then
\* and are not fetched yet.
IdleProc ==
    [pc |-> "idle", op |-> "none", subject |-> "", n |-> 0, i |-> 0,
     expSeq |-> Nil, ack |-> 0, afterSeq |-> Nil, lastMsg |-> 0, cursor |-> 0,
     events |-> <<>>, failOn |-> "", published |-> 0, wrote |-> {}, first |-> "none",
     lastId |-> "", sawLast |-> 0, subscribed |-> FALSE, snapLen |-> 0,
     basisSubject |-> "", basis |-> Nil, basisLen |-> 0, intervened |-> FALSE,
     state |-> <<>>, stateSeq |-> Nil, stateSubject |-> "", sent |-> 0,
     prior |-> 0, input |-> <<>>, last |-> "none", cause |-> "", pub |-> NoPub,
     held |-> <<>>, gone |-> FALSE, queue |-> <<>>]

\* What the call that has just returned returned, with the call it answers
\* (NoRet when the last step was not a return).
NoRet ==
    [op |-> "none", subject |-> "", n |-> 0, expSeq |-> Nil,
     afterSeq |-> Nil, failOn |-> "", seq |-> 0, err |-> "", events |-> <<>>,
     model |-> <<>>, offered |-> 0, published |-> 0, first |-> "none",
     lastId |-> "", sawLast |-> 0, basis |-> Nil, intervened |-> FALSE,
     subscribed |-> FALSE, lastMsg |-> 0, snapLen |-> 0, state0 |-> <<>>,
     wrote |-> {}, sent |-> 0, prior |-> 0, input |-> <<>>, i |-> 0,
     types |-> TRUE, last |-> "none", cause |-> "", drained |-> 0,
     stage |-> "idle", pub |-> NoPub, held |-> <<>>]

Init ==
    /\ stream = <<>>
    /\ proc = [p \in Procs |-> IdleProc]
    /\ ret = NoRet
    /\ reg = NoRegistry
    /\ rout = NoOut
    /\ heap = 0
    /\ store = [h \in {HandleOf(p) : p \in Procs} |-> EventStore(h)]
    /\ admin = NoAdmin
    /\ nuid = 0
    /\ exists = TRUE

\* ------------------------------------------------------------------ Evolve
\* The projection of the caller: it rejects the events whose payload is failOn.
ModelEvolve(failOn, event) == IF failOn # "" /\ event.Data = failOn THEN ErrEvolve ELSE ""

\* The loop of EventStore.Evolve from position i on: the sequence reached, the
\* error, the events the projection applied and the number it was offered.
RECURSIVE EvolveLoopEager(_, _, _, _, _)
RECURSIVE EvolveLoop(_, _, _, _, _)
\* The loop recording an event's sequence before the projection accepts it.
EvolveLoopEager(events, failOn, i, lastSeq, model) ==
    IF i > Len(events)
    THEN [seq |-> lastSeq, err |-> "", model |-> model, offered |-> i - 1]
    ELSE IF ModelEvolve(failOn, events[i]) # ""
    THEN [seq |-> events[i].Sequence, err |-> ModelEvolve(failOn, events[i]),
          model |-> model, offered |-> i]
    ELSE EvolveLoopEager(events, failOn, i + 1, events[i].Sequence,
                         Append(model, events[i].Sequence))

EvolveLoop(events, failOn, i, lastSeq, model) ==
    IF i > Len(events)
    THEN [seq |-> lastSeq, err |-> "", model |-> model, offered |-> i - 1]
    ELSE IF ModelEvolve(failOn, events[i]) # ""
    THEN [seq |-> lastSeq, err |-> ModelEvolve(failOn, events[i]), model |-> model,
          offered |-> i]
    ELSE EvolveLoop(events, failOn, i + 1, events[i].Sequence,
                    Append(model, events[i].Sequence))

\* EventStore.Evolve after its Load returned (events, _, err).
Evolve(events, err, failOn) ==
    IF err # ""
    THEN [seq |-> 0, err |-> err, model |-> <<>>, offered |-> 0]
    ELSE EvolveLoop(events, failOn, 1, 0, <<>>)

\* EventStore.Evolve called on a model the caller kept from earlier calls: the
\* fold mutates that model in place, and a failed Load leaves it untouched.
EvolveOnto(events, err, failOn, model) ==
    IF err # ""
    THEN [seq |-> 0, err |-> err, model |-> model, offered |-> 0]
    ELSE EvolveLoop(events, failOn, 1, 0, model)

\* ----------------------------------------------------------------- returns
\* The call c of caller p returns (events, seq, err), s being the stream after
\* the step; an Evolve call folds what its Load returned.  A caller keeps the
\* last sequence of a plain Load.
Return(p, c, events, seq, err, s, ids) ==
    \E ev \in {IF c.op = "Evolve" THEN Evolve(events, err, c.failOn)
               ELSE IF c.op = "EvolveKept"
               THEN EvolveOnto(events, err, c.failOn, c.state)
               ELSE [seq |-> seq, err |-> err, model |-> <<>>, offered |-> 0]} :
        /\ proc' = [proc EXCEPT ![p] =
                      IF c.op = "Load" /\ err = "" /\ c.afterSeq = Nil
                      THEN [IdleProc EXCEPT !.basisSubject = c.subject, !.basis = seq,
                                            !.basisLen = c.snapLen]
                      ELSE IF c.op = "EvolveKept"
                      THEN [IdleProc EXCEPT !.state = ev.model, !.stateSeq = ev.seq,
                                            !.stateSubject = c.subject]
                      ELSE IdleProc]
        /\ ret' = [op |-> c.op, subject |-> c.subject, n |-> c.n,
                   expSeq |-> c.expSeq, afterSeq |-> c.afterSeq, failOn |-> c.failOn,
                   seq |-> ev.seq, err |-> ev.err, events |-> events,
                   model |-> ev.model, offered |-> ev.offered,
                   published |-> c.published, first |-> c.first,
                   lastId |-> c.lastId, sawLast |-> c.sawLast, basis |-> c.basis,
                   intervened |-> c.intervened, subscribed |-> c.subscribed,
                   lastMsg |-> c.lastMsg, snapLen |-> c.snapLen,
                   state0 |-> c.state, wrote |-> c.wrote, sent |-> c.sent,
                   prior |-> c.prior, input |-> c.input, i |-> c.i,
                   types |-> HasTypes(p), last |-> c.last, cause |-> c.cause,
                   drained |-> Len(c.events), stage |-> c.pc, pub |-> c.pub,
                   held |-> c.held]
        /\ stream' = [k \in 1 .. Len(s) |->
                        IF k \in c.wrote THEN [s[k] EXCEPT !.retSeq = seq] ELSE s[k]]
        /\ store' = [store EXCEPT ![HandleOf(p)] = StoreAfter(@, c)]
        /\ nuid' = ids
        /\ UNCHANGED <<reg, rout, heap, admin, exists>>

\* The call c of caller p goes on after a step that left the stream as s.
Continue(p, c, s, ids) ==
    /\ proc' = [proc EXCEPT ![p] = c]
    /\ ret' = NoRet
    /\ stream' = s
    /\ store' = [store EXCEPT ![HandleOf(p)] = StoreAfter(@, c)]
    /\ nuid' = ids
    /\ UNCHANGED <<reg, rout, heap, admin, exists>>

\* ------------------------------------------------------------------ Append
\* What a publish can fail with on the transport, and the publish that works.
NoFault == ""
Faults == {ErrConnectionClosed}

\* Append returning every publish failure as it is.
PublishErrorRaw(err) == err

\* Append's translation of a publish failure.
PublishError(err) == IF err = ErrWrongLastSequence THEN ErrSequenceConflict ELSE err

\* Append attaching the precondition to no publish.
ExpectOptNone(i, expSeq) == Nil

\* Append attaching the precondition to every publish of the batch.
ExpectOptAll(i, expSeq) == expSeq

\* The precondition attached to the publish of the event at position i.
ExpectOpt(i, expSeq) == IF i = 0 THEN expSeq ELSE Nil

\* wrapEvent working on a copy of the caller's Event.
CallerEventCopy(e, w) == e

\* The caller's Event value e after wrapEvent returned w: wrapEvent receives
\* the pointer the caller put in the batch and assigns Type, ID and Time
\* through it.
CallerEvent(e, w) == w.event

\* Append returning, with an error, the sequence of the last acknowledgement.
AppendFailedAck(c) == c.ack

\* The sequence Append returns with an error of wrapEvent, packEvent or
\* PublishMsg.
AppendFailed(c) == 0

\* Append returning the number of messages it stored.
AppendResultCount(c) == c.published

\* The sequence Append returns after the loop: that of the last acknowledgement.
AppendResult(c) == c.ack

\* Append keeping the first acknowledgement it received.
PubAckFirst(ack, r) == IF ack = 0 THEN r.seq ELSE ack

\* ack, err = PublishMsg(..): every acknowledgement replaces the one before.
PubAck(ack, r) == r.seq

\* The greatest sequence a successful Append has returned for messages it
\* stored under the subject (0 if none).
PriorReturned(s, subject) ==
    Max({0} \cup {s[k].retSeq : k \in {j \in 1 .. Len(s) : s[j].subject = subject}})

\* One iteration of Append's loop: wrap, pack and publish events[c.i] = e.
\* (input and last describe the event of the iteration that returns.)
\* (Each intermediate value is bound once, as the single element of a set.)
\* fault is the failure PublishMsg returns for the transport, NoFault if the
\* publish is answered; a publish that fails on the transport was lost
\* before the stream received it, or was received (and stored, unless the
\* stream refuses it or knows its identity) with the acknowledgement lost; a
\* publish to a stream that does not exist gets no response.  n1 counts the
\* identity wrapEvent generated.
AppendIter(p, c, e, fault) ==
    \E w \in {wrapEvent(HasTypes(p), e, NewId(nuid))} :
    \E n1 \in {IF w.err = "" /\ e.ID = "" THEN nuid + 1 ELSE nuid} :
    \E pk \in {packEvent(HasTypes(p), c.subject, w.event, ExpectOpt(c.i, c.expSeq))} :
    \E received \in IF fault # NoFault /\ w.err = "" /\ pk.err = "" /\ exists
                    THEN BOOLEAN ELSE {FALSE} :
    \E answer \in {IF w.err # "" \/ pk.err # "" \/ ~exists
                     THEN [err |-> ErrNoStreamResponse, dup |-> FALSE, seq |-> 0,
                           stream |-> stream]
                     ELSE Publish(stream, [pk.msg EXCEPT !.tail = (c.i + 1 = c.n),
                                                         !.in = e])} :
    \E r \in {IF fault # NoFault
                THEN [err |-> fault, dup |-> FALSE, seq |-> 0,
                      stream |-> IF received THEN answer.stream ELSE stream]
                ELSE answer} :
    \E outcome \in {IF w.err # "" \/ pk.err # "" THEN "invalid"
                    ELSE IF r.err # "" THEN "conflict"
                    ELSE IF r.dup THEN "dup" ELSE "new"} :
    \E s1 \in {IF outcome = "invalid" THEN stream ELSE r.stream} :
    \E c1 \in {[c EXCEPT !.i = @ + 1,
                         !.first = IF c.i = 0 THEN outcome ELSE @,
                         !.published = IF outcome = "new" THEN @ + 1 ELSE @,
                         !.wrote = IF outcome = "new" THEN @ \cup {r.seq} ELSE @,
                         !.lastId = IF w.err = "" THEN w.event.ID ELSE @,
                         !.sent = IF outcome = "invalid" THEN @ ELSE @ + 1,
                         !.input = e,
                         !.held = CallerEvent(e, w),
                         !.last = outcome,
                         !.cause = IF outcome = "conflict" THEN r.err ELSE @,
                         !.pub = IF outcome = "invalid" THEN @
                                 ELSE PubRequest(c.i, w.event, pk.msg,
                                                 ExpectStream(store[HandleOf(p)].name)),
                         !.ack = IF outcome \in {"new", "dup"} THEN PubAck(@, r)
                                 ELSE @]} :
        /\ s1 # stream => Len(stream) < MaxSeq
        /\ n1 <= MaxIds
        /\ IF w.err # "" THEN Return(p, c1, <<>>, AppendFailed(c1), w.err, s1, n1)
           ELSE IF pk.err # "" THEN Return(p, c1, <<>>, AppendFailed(c1), pk.err, s1, n1)
           ELSE IF r.err # ""
           THEN Return(p, c1, <<>>, AppendFailed(c1), PublishError(r.err), s1, n1)
           ELSE IF c1.i = c.n THEN Return(p, c1, <<>>, AppendResult(c1), "", s1, n1)
           ELSE Continue(p, [c1 EXCEPT !.input = <<>>, !.held = <<>>, !.last = "none"],
                         s1, n1)

\* Append(subject, events, opts): the call and the first iteration of its loop
\* over events, e being events[0]; an empty batch reads the sequence of an
\* acknowledgement it never received.
AppendCallOver(p, subject, n, expSeq, e, fault) ==
    LET c == [IdleProc EXCEPT !.pc = "append", !.op = "Append",
                              !.subject = subject, !.n = n, !.expSeq = expSeq,
                              !.sawLast = MsgGet(stream, subject).seq,
                              !.prior = PriorReturned(stream, subject),
                              !.basis = IF proc[p].basisSubject = subject
                                        THEN proc[p].basis ELSE Nil,
                              !.intervened =
                                  /\ proc[p].basisSubject = subject
                                  /\ \E k \in SeqsOf(stream, subject) :
                                        k > proc[p].basisLen]
    IN  /\ proc[p].pc = "idle"
        /\ IF n = 0
           THEN Return(p, c, <<>>, 0, ErrNilDeref, stream, nuid)
           ELSE AppendIter(p, c, e, fault)

\* The following iterations of the loop, e being events[i].
AppendNextOver(p, e, fault) ==
    /\ proc[p].pc = "append"
    /\ AppendIter(p, proc[p], e, fault)

\* The call and its iterations over a transport that works.
AppendCall(p, subject, n, expSeq, e) == AppendCallOver(p, subject, n, expSeq, e, NoFault)
AppendNext(p, e) == AppendNextOver(p, e, NoFault)

\* -------------------------------------------------------------------- Load
\* lastMsgForSubject reporting every error reply, 404 included.
lastMsgForSubjectStrict(rep) ==
    IF rep.code # 0 THEN [seq |-> 0, err |-> "nats: api error"]
    ELSE [seq |-> rep.seq, err |-> ""]

\* EventStore.lastMsgForSubject: the reply decoded, 404 meaning no message.
lastMsgForSubject(rep) ==
    IF rep.code # 0
    THEN IF rep.code = 404 THEN [seq |-> 0, err |-> ""]
         ELSE [seq |-> 0, err |-> "nats: api error"]
    ELSE [seq |-> rep.seq, err |-> ""]

\* Whether Load returns without reading: nothing after afterSeq.
NothingNew(lastSeq, afterSeq) == afterSeq # Nil /\ lastSeq <= afterSeq

\* The last sequence Load returns when nothing is new.
NothingNewSeq(lastSeq) == 0

\* Load returning what it has drained together with a failure.
LoadFailedPartial(c) == c.events

\* The events of "return nil, 0, err".
LoadFailed(c) == <<>>

\* Load / Evolve: the call, and the lookup of the latest message of the subject.
LoadCall(p, op, subject, afterSeq, failOn) ==
    LET last == lastMsgForSubject(MsgGet(stream, subject))
        c == [IdleProc EXCEPT !.pc = "load_sub", !.op = op,
                              !.subject = subject, !.afterSeq = afterSeq,
                              !.failOn = failOn, !.lastMsg = last.seq,
                              !.snapLen = Len(stream), !.state = proc[p].state,
                              !.stateSeq = proc[p].stateSeq,
                              !.stateSubject = proc[p].stateSubject]
    IN  /\ proc[p].pc = "idle"
        /\ IF last.err # "" THEN Return(p, c, LoadFailed(c), 0, last.err, stream, nuid)
           ELSE IF last.seq = 0 THEN Return(p, c, <<>>, 0, "", stream, nuid)
           ELSE IF NothingNew(last.seq, afterSeq)
           THEN Return(p, c, <<>>, NothingNewSeq(last.seq), "", stream, nuid)
           ELSE Continue(p, c, stream, nuid)

\* Where the ordered consumer starts: StartSequence(afterSeq) or DeliverAll.
StartCursor(afterSeq) == IF afterSeq # Nil THEN afterSeq ELSE 1

\* Load dropping no message.
SkipFirstNever(afterSeq) == FALSE

\* Whether Load drops the first delivered message.
SkipFirst(afterSeq) == afterSeq # Nil

\* js.SubscribeSync: no stream is found for the subject when the stream was
\* deleted since the lookup; the server refuses a start sequence of zero.
LoadSubscribe(p) ==
    LET c == proc[p]
    IN  /\ c.pc = "load_sub"
        /\ IF ~exists
           THEN Return(p, c, LoadFailed(c), 0, ErrNoMatchingStream, stream, nuid)
           ELSE IF c.afterSeq = 0
           THEN Return(p, c, LoadFailed(c), 0, ErrStartSequence, stream, nuid)
           ELSE Continue(p, [c EXCEPT !.subscribed = TRUE,
                                      !.cursor = StartCursor(c.afterSeq),
                                      !.pc = IF SkipFirst(c.afterSeq) THEN "load_skip"
                                             ELSE "load_next"], stream, nuid)

\* What sub.NextMsgWithContext has to return to call c: the next stored
\* message of the subject, or, the stream being deleted, the next of the
\* messages the subscription still holds.
CanFetch(s, c) ==
    IF c.gone THEN c.queue # <<>> ELSE HasNext(s, c.subject, c.cursor)
Fetch(s, c) ==
    IF c.gone THEN Head(c.queue)
    ELSE [seq |-> NextSeq(s, c.subject, c.cursor),
          msg |-> s[NextSeq(s, c.subject, c.cursor)]]
Fetched(c, m) ==
    [c EXCEPT !.cursor = m.seq + 1, !.queue = IF c.gone THEN Tail(@) ELSE @]

\* "Skip first": the first delivered message is dropped.
LoadSkip(p) ==
    LET c == proc[p]
    IN  /\ c.pc = "load_skip"
        /\ CanFetch(stream, c)
        /\ Continue(p, [Fetched(c, Fetch(stream, c)) EXCEPT !.pc = "load_next"],
                    stream, nuid)

\* The drain loop stopping at the first event at or past the snapshot.
DrainDoneAtLeast(event, lastSeq) == event.Sequence >= lastSeq

\* Whether the drain loop stops after this event.
DrainDone(event, lastSeq) == event.Sequence = lastSeq

\* Load returning the number of events it read.
LoadResultCount(c) == Len(c.events)

\* The last sequence Load returns with the events it read.
LoadResult(c) == c.lastMsg

\* One iteration of the drain loop: fetch, unpack, collect, stop at lastMsg.
LoadNext(p) ==
    /\ proc[p].pc = "load_next"
    /\ CanFetch(stream, proc[p])
    /\ \E c \in {proc[p]} :
       \E m \in {Fetch(stream, c)} :
       \E u \in {unpackEvent(HasTypes(p), m.msg, m.seq)} :
       \E c1 \in {[Fetched(c, m) EXCEPT !.events = Append(@, u.event)]} :
          IF u.err # "" THEN Return(p, c, LoadFailed(c), 0, u.err, stream, nuid)
          ELSE IF DrainDone(u.event, c.lastMsg)
          THEN Return(p, c1, c1.events, LoadResult(c1), "", stream, nuid)
          ELSE Continue(p, c1, stream, nuid)

\* The request of the lookup fails (cancelled context, transport): Load
\* returns before anything else.
LoadLookupFailed(p, op, subject, afterSeq, fault) ==
    LET c == [IdleProc EXCEPT !.pc = "load_last", !.op = op, !.subject = subject,
                              !.afterSeq = afterSeq, !.snapLen = Len(stream)]
    IN  /\ proc[p].pc = "idle"
        /\ Return(p, c, LoadFailed(c), 0, fault, stream, nuid)

\* SubscribeSync or NextMsgWithContext fails (cancelled context, transport)
\* where the Load stands: opening the subscription, skipping the first
\* message or fetching the next one.
LoadInterrupted(p, fault) ==
    /\ proc[p].pc \in {"load_sub", "load_skip", "load_next"}
    /\ Return(p, proc[p], LoadFailed(proc[p]), 0, fault, stream, nuid)

\* ----------------------------------------------------------- specifications
\* The two callers: in each specification one runs the calls that take
\* several steps, the other the calls that take one.
Reader == "p1"
Writer == "p2"

\* Events with a generated identity and a payload that passes Validate.
PlainEvents == {Event("", "OrderPlaced"), Event("", "OrderShipped")}
OneEvent == {Event("", "OrderPlaced")}

\* The writer appends batches of the events E to the keys.
Writes(E) ==
    \/ \E k \in Keys, n \in 1 .. MaxBatch, e \in E : AppendCall(Writer, k, n, Nil, e)
    \/ \E e \in E : AppendNext(Writer, e)

\* The writer appends one of the events E to a key.
WritesOne(E) == \E k \in Keys, e \in E : AppendCall(Writer, k, 1, Nil, e)

\* The steps of the reader's Load or Evolve after the call.
Reads ==
    \/ LoadSubscribe(Reader)
    \/ LoadSkip(Reader)
    \/ LoadNext(Reader)

\* Conditional Appends to one key, with new and repeated identities: one
\* caller appends an event or a pair expecting the subject empty or at its
\* first message, the other single events expecting any sequence, next to
\* unconditional Appends to another key.
RaceKey == "orders.1"
OtherKey == "orders.2"
RaceEvents == {Event("", "OrderPlaced"), Event("a", "OrderPlaced")}

NextRace ==
    \/ \E n \in {1, 2}, x \in 0 .. 1, e \in RaceEvents :
          AppendCall(Writer, RaceKey, n, x, e)
    \/ \E e \in RaceEvents : AppendNext(Writer, e)
    \/ \E x \in 0 .. MaxSeq : AppendCall(Reader, RaceKey, 1, x, Event("", "OrderPlaced"))
    \/ AppendCall(Reader, OtherKey, 1, Nil, Event("", "OrderPlaced"))

SpecRace == Init /\ [][NextRace]_vars

\* Unconditional Appends of batches of every size to one key, with new and
\* repeated identities, valid and invalid payloads, next to Appends of single
\* events to every key.
AppendEvents == {Event("", "OrderPlaced"), Event("a", "OrderPlaced"), Event("", "BadOrder")}

NextAppend ==
    \/ \E n \in 0 .. MaxBatch, e \in AppendEvents :
          AppendCall(Writer, RaceKey, n, Nil, e)
    \/ \E e \in AppendEvents : AppendNext(Writer, e)
    \/ \E k \in Keys, e \in RaceEvents : AppendCall(Reader, k, 1, Nil, e)

SpecAppend == Init /\ [][NextAppend]_vars

\* The subscriptions a call has opened and not released: Load calls
\* SubscribeSync once and Unsubscribe on no path, neither before a return nor
\* deferred.
OpenSubscriptions(c) == IF c.subscribed THEN 1 ELSE 0

\* Loads of every subject and starting point next to a writer of batches.
NextLoad ==
    \/ Writes(OneEvent)
    \/ \E s \in Subjects, a \in SeqOpts : LoadCall(Reader, "Load", s, a, "")
    \/ Reads

SpecLoad == Init /\ [][NextLoad]_vars

\* The same with progress: a Load that can take its next step (the
\* subscription opens, the consumer delivers the next stored message of the
\* subject) takes it; no context is cancelled.
SpecLoadLive == SpecLoad /\ WF_vars(Reads)

\* A caller that loads a key and then appends to it an event with a new or a
\* repeated identity, asserting a sequence, next to a writer of events to
\* that key and to another.
NextOcc ==
    \/ WritesOne(OneEvent)
    \/ LoadCall(Reader, "Load", RaceKey, Nil, "")
    \/ LoadSubscribe(Reader)
    \/ LoadNext(Reader)
    \/ \E x \in SeqOpts, e \in RaceEvents : AppendCall(Reader, RaceKey, 1, x, e)

SpecOcc == Init /\ [][NextOcc]_vars

\* Evolve calls of every subject, starting point and projection next to a
\* writer of single events.
NextEvolve ==
    \/ WritesOne(PlainEvents)
    \/ \E s \in Subjects, a \in SeqOpts, f \in FailOns : LoadCall(Reader, "Evolve", s, a, f)
    \/ Reads

SpecEvolve == Init /\ [][NextEvolve]_vars

\* Long-lived state: the caller keeps one projection of one subject, evolves
\* it first without option and from then on with AfterSequence of the
\* sequence the previous call returned (lastSeq, err = es.Evolve(..)).
EvolveKeptCall(p, subject) ==
    /\ proc[p].stateSubject \in {"", subject}
    /\ LoadCall(p, "EvolveKept", subject, proc[p].stateSeq, "")

\* A caller with long-lived state next to a writer of single events.
NextState ==
    \/ WritesOne(OneEvent)
    \/ \E s \in {RaceKey, Wildcard} : EvolveKeptCall(Reader, s)
    \/ Reads

SpecState == Init /\ [][NextState]_vars

\* Appends over a transport that can fail on any publish, the message
\* stored or not: batches with and without precondition, the precondition
\* right or wrong.
NextFault ==
    \/ \E n \in 1 .. MaxBatch, x \in {Nil, 0, 1}, e \in OneEvent,
          f \in Faults \cup {NoFault} :
          AppendCallOver(Writer, RaceKey, n, x, e, f)
    \/ \E e \in OneEvent, f \in Faults \cup {NoFault} : AppendNextOver(Writer, e, f)

SpecFault == Init /\ [][NextFault]_vars

\* Loads that can fail at every step: the lookup, the subscription, a fetch
\* (cancelled or broken), and the unpacking of a message a store without
\* registry wrote, next to writers of single events.
LoadFaults == {ErrCanceled, ErrConnectionClosed}
NextCancel ==
    \/ \E e \in OneEvent : AppendCall(Writer, RaceKey, 1, Nil, e)
    \/ AppendCall(Bare, RaceKey, 1, Nil, EventOf("", "foo", "", "hello", NoMeta))
    \/ \E a \in SeqOpts : LoadCall(Reader, "Load", RaceKey, a, "")
    \/ \E a \in SeqOpts, f \in LoadFaults : LoadLookupFailed(Reader, "Load", RaceKey, a, f)
    \/ \E f \in LoadFaults : LoadInterrupted(Reader, f)
    \/ Reads

SpecCancel == Init /\ [][NextCancel]_vars

\* Events as callers of a store with a type registry build them: nothing
\* set, everything set, a repeated identity with another content, a type
\* name that is not the payload's, a payload of a shape never registered, no
\* payload.
TypedEvents ==
    {EventOf("", "", "", "OrderPlaced", NoMeta),
     EventOf("a", "order-placed", "t1", "OrderPlaced", GeoMeta),
     EventOf("a", "", "", "OrderShipped", NoMeta),
     EventOf("", "order-shipped", "", "OrderPlaced", NoMeta),
     EventOf("", "", "", "OrderCancelled", NoMeta),
     EventOf("", "", "t1", "", NoMeta)}

\* Events as callers of a store without registry build them: the event of
\* TestEventStoreNoRegistry, the same without type name and with identity,
\* time and metadata, and a payload that is not pre-encoded.
BareEvents ==
    {EventOf("", "foo", "", "hello", NoMeta),
     EventOf("b", "", "t1", "hello", GeoMeta),
     EventOf("", "foo", "", "OrderPlaced", NoMeta)}

\* The envelope at append time: a batch writer with a registry and a writer
\* without, whose payloads are pre-encoded.
NextEnvelope ==
    \/ \E n \in 1 .. MaxBatch, e \in TypedEvents : AppendCall(Writer, RaceKey, n, Nil, e)
    \/ \E e \in TypedEvents : AppendNext(Writer, e)
    \/ \E e \in {b \in BareEvents : b.Data \in ByteValues} :
          AppendCall(Bare, RaceKey, 1, Nil, e)

SpecEnvelope == Init /\ [][NextEnvelope]_vars

\* The events that are stored: nothing set, everything set, and the repeated
\* identity with another content.
StoredEvents ==
    {EventOf("", "", "", "OrderPlaced", NoMeta),
     EventOf("a", "order-placed", "t1", "OrderPlaced", GeoMeta),
     EventOf("a", "", "", "OrderShipped", NoMeta)}

\* The pre-encoded event a store without registry stores, with identity,
\* time and metadata.
BytesEvents == {EventOf("b", "foo", "t1", "hello", GeoMeta)}

\* The key a store works on: the stores with a registry share one, the store
\* without has its own.
KeyOf(p) == IF HasTypes(p) THEN RaceKey ELSE OtherKey

\* The envelope read back: a caller of a store with a registry appending
\* batches to one key and loading it, a caller of a store without registry
\* appending to and loading another, as the tests do.
NextRoundTrip ==
    \/ \E n \in 1 .. MaxBatch, e \in StoredEvents : AppendCall(Writer, RaceKey, n, Nil, e)
    \/ \E e \in StoredEvents : AppendNext(Writer, e)
    \/ \E e \in BytesEvents : AppendCall(Bare, OtherKey, 1, Nil, e)
    \/ \E p \in {Writer, Bare} : LoadCall(p, "Load", KeyOf(p), Nil, "")
    \/ \E p \in {Writer, Bare} : LoadSubscribe(p)
    \/ \E p \in {Writer, Bare} : LoadNext(p)

SpecRoundTrip == Init /\ [][NextRoundTrip]_vars

\* Batches of one caller on a key on which another caller appends single
\* events in between.
BatchEvents == {Event("", "OrderPlaced"), Event("a", "OrderPlaced")}
NextBatch ==
    \/ \E n \in 1 .. MaxBatch, e \in BatchEvents : AppendCall(Writer, RaceKey, n, Nil, e)
    \/ \E e \in BatchEvents : AppendNext(Writer, e)
    \/ \E e \in OneEvent : AppendCall(Reader, RaceKey, 1, Nil, e)

SpecBatch == Init /\ [][NextBatch]_vars

\* Two callers of one store appending events with new and repeated
\* identities, one batches to one key, the other single events to another
\* key, with and without the assertion that its key is empty.
NextKeys ==
    \/ \E n \in 1 .. MaxBatch, e \in RaceEvents : AppendCall(Writer, RaceKey, n, Nil, e)
    \/ \E e \in RaceEvents : AppendNext(Writer, e)
    \/ \E x \in {Nil, 0}, e \in RaceEvents : AppendCall(Reader, OtherKey, 1, x, e)

SpecKeys == Init /\ [][NextKeys]_vars

\* The caller appends again the Event value of the Append that has just
\* returned, as the call left it.
ResubmitOver(p, fault) ==
    /\ ret.op = "Append" /\ ret.n = 1
    /\ AppendCallOver(p, ret.subject, 1, Nil, ret.held, fault)

\* One caller appending single events with generated identities to a key over
\* a transport that can fail, and appending again the value it holds.
ResubmitEvents == OneEvent \cup {Event("", "BadOrder")}

NextResubmit ==
    \/ \E e \in ResubmitEvents, f \in Faults \cup {NoFault} :
          AppendCallOver(Writer, RaceKey, 1, Nil, e, f)
    \/ \E f \in Faults \cup {NoFault} : ResubmitOver(Writer, f)

SpecResubmit == Init /\ [][NextResubmit]_vars

\* Batches of one and two events that fail at any position and for every
\* reason: a writer with a registry whose events fail type resolution or
\* Validate or whose publish fails on the transport, the message stored or
\* not, and a writer without registry whose payload is not bytes, each on its
\* own key and with generated identities.
PrefixEvents ==
    {Event("", "OrderPlaced"),
     Event("", "BadOrder"),
     Event("", "OrderCancelled"),
     EventOf("", "order-shipped", "", "OrderPlaced", NoMeta)}
PrefixBytes ==
    {EventOf("", "foo", "", "hello", NoMeta),
     EventOf("", "foo", "", "OrderPlaced", NoMeta)}

NextPrefix ==
    \/ \E n \in {1, 2}, e \in PrefixEvents, f \in Faults \cup {NoFault} :
          AppendCallOver(Writer, RaceKey, n, Nil, e, f)
    \/ \E e \in PrefixEvents, f \in Faults \cup {NoFault} : AppendNextOver(Writer, e, f)
    \/ \E n \in {1, 2}, e \in PrefixBytes : AppendCall(Bare, OtherKey, n, Nil, e)
    \/ \E e \in PrefixBytes : AppendNext(Bare, e)

SpecPrefix == Init /\ [][NextPrefix]_vars

\* Messages of other publishers on the stream of a store: one of a store
\* whose registry uses the msgpack codec, one of a publisher whose codec
\* this build does not know.
ForeignMsg(subject, id, c) ==
    [packEvent(TRUE, subject, EventOf(id, "order-placed", "t1", "OrderPlaced", NoMeta),
               Nil).msg EXCEPT !.codec = c, !.data = <<c, @[2]>>]
ForeignMsgs ==
    {ForeignMsg(RaceKey, "f1", "msgpack"), ForeignMsg(RaceKey, "f2", "xml")}

\* Another publisher's message reaches the stream.
ForeignPublish(msg) ==
    /\ exists
    /\ Len(stream) < MaxSeq
    /\ stream' = Publish(stream, msg).stream
    /\ ret' = NoRet
    /\ UNCHANGED <<proc, reg, rout, heap, store, admin, nuid, exists>>

\* A store with a registry appends to and loads a key that other publishers
\* write to as well.
NextCodec ==
    \/ \E e \in OneEvent : AppendCall(Writer, RaceKey, 1, Nil, e)
    \/ \E m \in ForeignMsgs : ForeignPublish(m)
    \/ \E p \in {Reader, Writer} : LoadCall(p, "Load", RaceKey, Nil, "")
    \/ \E p \in {Reader, Writer} : LoadSubscribe(p)
    \/ \E p \in {Reader, Writer} : LoadNext(p)

SpecCodec == Init /\ [][NextCodec]_vars

\* A message on the stream of a store whose payload its codec cannot decode:
\* the header names the json codec, the body is not JSON.
CorruptMsg == [ForeignMsg(RaceKey, "f3", "msgpack") EXCEPT !.codec = "json"]

\* A store with a registry appends to and loads a key that holds such a
\* message.
NextDecode ==
    \/ \E n \in 1 .. MaxBatch, e \in PlainEvents : AppendCall(Writer, RaceKey, n, Nil, e)
    \/ \E e \in PlainEvents : AppendNext(Writer, e)
    \/ ForeignPublish(CorruptMsg)
    \/ LoadCall(Reader, "Load", RaceKey, Nil, "")
    \/ LoadSubscribe(Reader)
    \/ LoadNext(Reader)

SpecDecode == Init /\ [][NextDecode]_vars

\* Create, Update and Delete of the stream behind a store.
NextAdmin ==
    \/ \E p \in Procs, config \in Configs, err \in {"", ErrStream} :
          CreateCall(p, config, err)
    \/ \E p \in Procs, config \in Configs, err \in {"", ErrStream} :
          UpdateCall(p, config, err)
    \/ \E p \in Procs, err \in {"", ErrStream} : DeleteCall(p, err)

SpecAdmin == Init /\ [][NextAdmin]_vars

\* The type registry on its own: registries are constructed from every map
\* of descriptors and every codec option, and used.
NameSets == {x \in SUBSET TypeNames : Cardinality(x) <= MaxTypes}
Orders(ns) ==
    {o \in [1 .. Cardinality(ns) -> ns] :
        \A i, j \in 1 .. Cardinality(ns) : i # j => o[i] # o[j]}
CodecOptions == {"", "msgpack", "protobuf", "xml"}
Values ==
    {Value(ptr, shape, val, 0) : ptr \in BOOLEAN, shape \in {"A", "P"}, val \in Contents}
        \cup {Value(ptr, shape, 0, 0) : ptr \in BOOLEAN, shape \in {"B", "int"}}
Bodies == {ProtoBytes(x) : x \in Contents} \cup {<<"json", x>> : x \in Contents}

\* NewRegistry(types, opts...): the caller holds what it returned.  A
\* behaviour constructs one registry and then uses it.
NewRegistryCall ==
    /\ rout = NoOut
    /\ \E ns \in NameSets, codecName \in CodecOptions :
          \E types \in [ns -> Factories], order \in Orders(ns) :
             \E res \in {NewRegistry(types, order, codecName)} :
                /\ reg' = res.r
                /\ rout' = [op |-> "NewRegistry", types |-> types,
                            order |-> order, codec |-> codecName,
                            err |-> res.err]
    /\ heap' = 0
    /\ UNCHANGED <<stream, proc, ret, store, admin, nuid, exists>>

\* r.Lookup(v)
LookupCall(v) ==
    /\ reg # NoRegistry
    /\ rout' = [op |-> "Lookup", v |-> v, name |-> LookupIn(reg, v).name,
                err |-> LookupIn(reg, v).err]
    /\ UNCHANGED <<stream, proc, ret, store, admin, reg, heap, nuid, exists>>

\* r.Init(t): a value the type's function makes is a new allocation.
InitCall(t) ==
    /\ reg # NoRegistry
    /\ heap < MaxHeap
    /\ \E res \in {InitIn(reg, t, heap + 1)} :
          /\ rout' = [op |-> "Init", t |-> t, v |-> res.v, err |-> res.err]
          /\ heap' = IF res.err = "" /\ res.v # NilValue THEN heap + 1 ELSE heap
    /\ UNCHANGED <<stream, proc, ret, store, admin, reg, nuid, exists>>

\* r.Marshal(v)
MarshalCall(v) ==
    /\ reg # NoRegistry
    /\ \E res \in {MarshalIn(reg, v)} :
          rout' = [op |-> "Marshal", v |-> v, b |-> res.b, err |-> res.err,
                   calls |-> res.calls]
    /\ UNCHANGED <<stream, proc, ret, store, admin, reg, heap, nuid, exists>>

\* r.Unmarshal(b, v)
UnmarshalCall(b, v) ==
    /\ reg # NoRegistry
    /\ \E res \in {UnmarshalIn(reg, b, v)} :
          rout' = [op |-> "Unmarshal", v |-> v, b |-> b, out |-> res.v,
                   err |-> res.err, calls |-> res.calls]
    /\ UNCHANGED <<stream, proc, ret, store, admin, reg, heap, nuid, exists>>

\* r.UnmarshalType(b, t) of the bytes and the name of the value a Marshal
\* has just returned (TestMarshalUnmarshal).
UnmarshalTypeCall ==
    /\ reg # NoRegistry
    /\ heap < MaxHeap
    /\ rout.op = "Marshal" /\ rout.err = ""
    /\ \E res \in {UnmarshalTypeIn(reg, rout.b, LookupIn(reg, rout.v).name, heap + 1)} :
          /\ rout' = [op |-> "UnmarshalType", v |-> rout.v, b |-> rout.b,
                      t |-> LookupIn(reg, rout.v).name, out |-> res.v,
                      err |-> res.err]
          /\ heap' = heap + 1
    /\ UNCHANGED <<stream, proc, ret, store, admin, reg, nuid, exists>>

NextRegistry ==
    \/ NewRegistryCall
    \/ \E v \in Values : LookupCall(v)
    \/ \E t \in TypeNames : InitCall(t)
    \/ \E v \in Values : MarshalCall(v)
    \/ \E b \in Bodies, v \in Values : UnmarshalCall(b, v)
    \/ UnmarshalTypeCall

SpecRegistry == Init /\ [][NextRegistry]_vars

\* -------------------------------------------------------------------- Next
Next ==
    \/ NextRegistry
    \/ \E m \in ForeignMsgs : ForeignPublish(m)
    \/ NextAdmin
    \/ \E p \in Procs, k \in Keys, n \in 0 .. MaxBatch, x \in SeqOpts,
          e \in EventInputs \cup TypedEvents \cup BareEvents, f \in Faults \cup {NoFault} :
          AppendCallOver(p, k, n, x, e, f)
    \/ \E p \in Procs, e \in EventInputs \cup TypedEvents \cup BareEvents,
          f \in Faults \cup {NoFault} : AppendNextOver(p, e, f)
    \/ \E p \in Procs, s \in Subjects, a \in SeqOpts : LoadCall(p, "Load", s, a, "")
    \/ \E p \in Procs, s \in Subjects, a \in SeqOpts, f \in FailOns :
          LoadCall(p, "Evolve", s, a, f)
    \/ \E p \in Procs, s \in Subjects : EvolveKeptCall(p, s)
    \/ \E p \in Procs, s \in Subjects, a \in SeqOpts, f \in LoadFaults :
          LoadLookupFailed(p, "Load", s, a, f)
    \/ \E p \in Procs, f \in LoadFaults : LoadInterrupted(p, f)
    \/ \E p \in Procs : LoadSubscribe(p)
    \/ \E p \in Procs : LoadSkip(p)
    \/ \E p \in Procs : LoadNext(p)

Spec == Init /\ [][Next]_vars

\* ------------------------------------------------------------------ claims
\* The elements of a set of sequences in ascending order.
RECURSIVE Ascending(_)
Ascending(S) == IF S = {} THEN <<>> ELSE <<Min(S)>> \o Ascending(S \ {Min(S)})

\* The events stored under a subject at the sequences in (lo, hi], in log order.
Stored(s, subject, lo, hi) ==
    LET q == Ascending({k \in SeqsOf(s, subject) : lo < k /\ k <= hi})
    IN  [j \in 1 .. Len(q) |-> unpackEvent(TRUE, s[q[j]], q[j]).event]

\* The last sequence of a subject when the stream held its first len messages.
LastAt(s, subject, len) ==
    IF SeqsOf(SubSeq(s, 1, len), subject) = {} THEN 0
    ELSE Max(SeqsOf(SubSeq(s, 1, len), subject))

\* C1 (as stated): of the Appends to a key that assert ExpectSequence(S), at
\* most one succeeds.  Here: no Append asserting S returns success without
\* having stored its first event while the message another Append stored
\* under the same assertion is in the log and that Append succeeded too.
C1_AtMostOneSucceeds ==
    ~ /\ ret.op = "Append" /\ ret.err = "" /\ ret.expSeq # Nil
      /\ ret.first # "new"
      /\ \E k \in 1 .. Len(stream) :
            /\ stream[k].subject = ret.subject
            /\ stream[k].expLast = ret.expSeq
            /\ stream[k].retSeq > 0

\* C1 (amended): with the key at S, an Append asserting ExpectSequence(S)
\* whose first event has an identity the log has not accepted stores it and
\* succeeds; of the Appends asserting S at most one has its first event
\* stored, and it is stored right at S; every other whose first event has an
\* identity not yet accepted fails with ErrSequenceConflict and stores
\* nothing; one that sends an accepted identity again is answered as a
\* duplicate and succeeds.
C1_ExpectSequence ==
    /\ \A j, k \in 1 .. Len(stream) :
          (/\ j # k
           /\ stream[j].subject = stream[k].subject
           /\ stream[j].expLast # Nil) => stream[j].expLast # stream[k].expLast
    /\ \A k \in 1 .. Len(stream) :
          stream[k].expLast # Nil =>
             stream[k].expLast = LastAt(stream, stream[k].subject, k - 1)
    /\ (ret.op = "Append" /\ ret.expSeq # Nil) =>
          /\ ret.first \in {"new", "conflict", "dup"}
          /\ ret.first # "dup" => (ret.first = "new" <=> ret.sawLast = ret.expSeq)
          /\ ret.first = "new" => ret.err = "" /\ ret.published >= 1
          /\ ret.first = "conflict" =>
                ret.err = ErrSequenceConflict /\ ret.seq = 0 /\ ret.published = 0
          /\ ret.first = "dup" => ret.err = ""

\* C1 witness: two Appends asserted the same S on a key; the first event of
\* one is in the log and the other has just failed with the conflict.
C1_RaceLost ==
    /\ ret.op = "Append" /\ ret.first = "conflict" /\ ret.err = ErrSequenceConflict
    /\ \E k \in 1 .. Len(stream) :
          stream[k].subject = ret.subject /\ stream[k].expLast = ret.expSeq

\* C2: appending an identity again returns the sequence of the one entry the
\* log holds for it: no two entries share an identity, and a successful
\* Append returns the position of the entry of its last event's identity.
C2_IdempotentAppend ==
    /\ \A j, k \in 1 .. Len(stream) : stream[j].id = stream[k].id => j = k
    /\ (ret.op = "Append" /\ ret.err = "" /\ ret.n > 0) =>
          /\ ret.seq \in 1 .. Len(stream)
          /\ stream[ret.seq].id = ret.lastId

\* C2 witness: an Append of one event with an identity stored earlier under
\* the same key has returned, and later messages are in the log.
C2_Repeated ==
    /\ ret.op = "Append" /\ ret.err = "" /\ ret.n = 1 /\ ret.first = "dup"
    /\ ret.seq < Len(stream)
    /\ stream[ret.seq].subject = ret.subject

\* C3 (as stated): an Append that fails with the error of a payload's
\* Validate has published no event of its batch.
C3_NothingPublishedOnValidate ==
    (ret.op = "Append" /\ ret.err = ErrValidate) => ret.published = 0

\* C4: Load(key, AfterSequence(N)) with N one of the key's sequences below
\* its latest returns the key's events after N up to the latest sequence at
\* the lookup, in log order, and that latest sequence.
C4_LoadAfter ==
    (/\ ret.op = "Load" /\ ret.err = "" /\ ret.afterSeq # Nil
     /\ ret.afterSeq \in SeqsOf(stream, ret.subject)
     /\ ret.afterSeq < LastAt(stream, ret.subject, ret.snapLen)) =>
        /\ ret.seq = LastAt(stream, ret.subject, ret.snapLen)
        /\ ret.events = Stored(stream, ret.subject, ret.afterSeq, ret.seq)

\* C4 witness: a Load after one of the key's sequences returned two events.
C4_Partial ==
    /\ ret.op = "Load" /\ ret.err = "" /\ ret.afterSeq # Nil
    /\ ret.afterSeq \in SeqsOf(stream, ret.subject)
    /\ Len(ret.events) = 2

\* C5 (as stated): a Load whose afterSequence is at or beyond the latest
\* sequence of a key that has events returns no event, that latest sequence,
\* and opens no subscription.
C5_NothingNewReturnsLatest ==
    (/\ ret.op = "Load" /\ ret.err = "" /\ ret.afterSeq # Nil
     /\ LastAt(stream, ret.subject, ret.snapLen) > 0
     /\ ret.afterSeq >= LastAt(stream, ret.subject, ret.snapLen)) =>
        /\ ret.events = <<>>
        /\ ~ret.subscribed
        /\ ret.seq = LastAt(stream, ret.subject, ret.snapLen)

\* C6: a Load on a key without messages returns no event, sequence 0 and no
\* error, and opens no subscription.
C6_LoadEmptyKey ==
    (ret.op = "Load" /\ SeqsOf(stream, ret.subject) = {}) =>
        /\ ret.events = <<>>
        /\ ret.seq = 0
        /\ ret.err = ""
        /\ ~ret.subscribed

\* C6 witness: a Load of a key without messages returned while the log holds
\* messages of another key.
C6_EmptyKeyLoaded ==
    /\ ret.op = "Load" /\ SeqsOf(stream, ret.subject) = {}
    /\ Len(stream) > 0

\* C7 (as stated): the last sequence a Load without afterSequence returns is
\* the sequence returned by the Append that wrote the event at it (once that
\* Append has returned).
C7_SeqOfWritingAppend ==
    (/\ ret.op = "Load" /\ ret.err = "" /\ ret.afterSeq = Nil /\ ret.lastMsg > 0) =>
        stream[ret.seq].retSeq \in {Nil, ret.seq}

\* C7 (amended): a Load without afterSequence returns every event stored for
\* the key up to the latest sequence at its lookup, in log order with
\* strictly increasing Sequence; the last sequence it returns is the Sequence
\* of the last returned event, and is the sequence returned by the Append
\* that wrote that event when the event was the last of that Append's batch.
C7_LoadAll ==
    (/\ ret.op = "Load" /\ ret.err = "" /\ ret.afterSeq = Nil /\ ret.lastMsg > 0) =>
        /\ ret.lastMsg = LastAt(stream, ret.subject, ret.snapLen)
        /\ ret.events = Stored(stream, ret.subject, 0, ret.lastMsg)
        /\ \A j \in 1 .. Len(ret.events) - 1 :
              ret.events[j].Sequence < ret.events[j + 1].Sequence
        /\ ret.events # <<>>
        /\ ret.seq = ret.events[Len(ret.events)].Sequence
        /\ stream[ret.seq].tail => stream[ret.seq].retSeq = ret.seq

\* C7 witness: a Load without afterSequence returned two events of a key
\* whose last event ended a batch, with a message of another key in the log.
C7_Loaded ==
    /\ ret.op = "Load" /\ ret.err = "" /\ ret.afterSeq = Nil
    /\ Len(ret.events) = 2
    /\ stream[ret.seq].tail
    /\ SeqsOf(stream, ret.subject) # 1 .. Len(stream)

\* C8: whatever the interleaving with Appends, every event a Load returns has
\* Sequence at most the last sequence it returns, and was in the log when the
\* Load looked up the latest sequence.
C8_BoundedBySnapshot ==
    (ret.op = "Load" /\ ret.err = "") =>
        \A j \in 1 .. Len(ret.events) :
           /\ ret.events[j].Sequence <= ret.seq
           /\ ret.events[j].Sequence <= ret.snapLen

\* C8 witness: a Load returned events while the log holds a later event of
\* the same subject, appended after the lookup.
C8_LaterEventLeftOut ==
    /\ ret.op = "Load" /\ ret.err = "" /\ ret.events # <<>>
    /\ \E k \in SeqsOf(stream, ret.subject) : k > ret.seq /\ k > ret.snapLen

\* C9 (as stated): the last sequence Load(key) returns is the sequence of
\* the last event of the key at its lookup, and an Append asserting it
\* succeeds when the key got no event since, and fails with
\* ErrSequenceConflict when it got one.
C9_AssertLoaded ==
    /\ (ret.op = "Load" /\ ret.err = "" /\ ret.afterSeq = Nil) =>
          ret.seq = LastAt(stream, ret.subject, ret.snapLen)
    /\ (ret.op = "Append" /\ ret.basis # Nil /\ ret.expSeq = ret.basis) =>
          /\ ~ret.intervened => ret.err = ""
          /\ ret.intervened => ret.err = ErrSequenceConflict

\* C9 (amended): the last sequence Load(key) returns is the sequence of the
\* last event of the key at its lookup.  An Append asserting it whose first
\* event has an identity the log has not accepted stores that event and
\* succeeds when the key got no event since the Load, and fails with
\* ErrSequenceConflict, nothing published, when it got one; an Append whose
\* first event repeats an accepted identity is answered as a duplicate and
\* succeeds, whether the key got an event or not.
C9_LoadThenExpect ==
    /\ (ret.op = "Load" /\ ret.err = "" /\ ret.afterSeq = Nil) =>
          ret.seq = LastAt(stream, ret.subject, ret.snapLen)
    /\ (ret.op = "Append" /\ ret.basis # Nil /\ ret.expSeq = ret.basis) =>
          /\ ret.first \in {"new", "conflict", "dup"}
          /\ ret.first = "dup" => ret.err = ""
          /\ (ret.first # "dup" /\ ~ret.intervened) =>
                (ret.err = "" /\ ret.first = "new" /\ ret.published >= 1)
          /\ (ret.first # "dup" /\ ret.intervened) =>
                /\ ret.err = ErrSequenceConflict
                /\ ret.first = "conflict"
                /\ ret.seq = 0
                /\ ret.published = 0

\* C9 witness: an Append asserting the sequence its caller's Load returned
\* failed with the conflict, the key having got an event in between.
C9_Conflict ==
    /\ ret.op = "Append" /\ ret.basis > 0 /\ ret.expSeq = ret.basis
    /\ ret.intervened /\ ret.err = ErrSequenceConflict

\* The position of the first loaded event the projection rejects (one past
\* the end when it rejects none).
FirstRejected(events, failOn) ==
    IF \E j \in 1 .. Len(events) : ModelEvolve(failOn, events[j]) # ""
    THEN Min({j \in 1 .. Len(events) : ModelEvolve(failOn, events[j]) # ""})
    ELSE Len(events) + 1

\* C10: Evolve applies the loaded events in log order up to the first one
\* the projection rejects; it then returns that failure with the sequence of
\* the last event applied before (0 if none) and offers no later event; with
\* no rejection it returns the sequence of the last event.
C10_EvolveStopsAtFailure ==
    (ret.op = "Evolve" /\ ret.err \in {"", ErrEvolve}) =>
        \E f \in {FirstRejected(ret.events, ret.failOn)} :
            /\ ret.model = [j \in 1 .. f - 1 |-> ret.events[j].Sequence]
            /\ ret.seq = IF f = 1 THEN 0 ELSE ret.events[f - 1].Sequence
            /\ f <= Len(ret.events) => (ret.err = ErrEvolve /\ ret.offered = f)
            /\ f > Len(ret.events) => (ret.err = "" /\ ret.offered = Len(ret.events))

\* C10 witness: the projection rejected the second of three loaded events.
C10_FailedPartway ==
    /\ ret.op = "Evolve" /\ ret.err = ErrEvolve
    /\ ret.seq > 0
    /\ ret.offered < Len(ret.events)

\* The sequences of a subject in (lo, hi], in log order: what a projection
\* that records the sequence of each folded event holds of them.
FoldOf(s, subject, lo, hi) == Ascending({k \in SeqsOf(s, subject) : lo < k /\ k <= hi})

\* C11 (as stated): an Evolve on a kept projection with AfterSequence(L), L
\* being what the previous Evolve returned, called when the subject has
\* events after L, succeeds, adds exactly the events after L, in order, to
\* what the projection held, and returns the sequence of the newest event.
C11_ResumeFoldsNewEvents ==
    (/\ ret.op = "EvolveKept"
     /\ ret.afterSeq # Nil
     /\ LastAt(stream, ret.subject, ret.snapLen) > ret.afterSeq)
    => /\ ret.err = ""
       /\ ret.seq = LastAt(stream, ret.subject, ret.snapLen)
       /\ ret.model = ret.state0 \o FoldOf(stream, ret.subject, ret.afterSeq,
                                            LastAt(stream, ret.subject, ret.snapLen))

\* C12 (as stated): a caller that keeps one projection and passes each call
\* the sequence the previous call returned has, after every call made once
\* the projection holds events, every event the subject had at the call's
\* lookup in the projection exactly once and in log order.
C12_LongLivedState ==
    (ret.op = "EvolveKept" /\ ret.state0 # <<>>)
    => /\ ret.err = ""
       /\ ret.model = FoldOf(stream, ret.subject, 0,
                             LastAt(stream, ret.subject, ret.snapLen))


\* C13 (as stated): a successful Append returns a sequence greater than every
\* sequence returned by the successful Appends to the key that had stored
\* messages and returned before it was called.
C13_StrictlyIncreasing ==
    (ret.op = "Append" /\ ret.err = "") => ret.seq > ret.prior

\* C13 (amended): a successful Append has issued exactly one publish per
\* event; the sequence it returns is the one the collaborator assigned to the
\* entry holding the identity of the call's last event; and when the last
\* event was stored as a new entry it is the newest entry the call stored and
\* exceeds every sequence the key had, or an Append to it had returned, when
\* the call began.
C13_AppendSequences ==
    (ret.op = "Append" /\ ret.err = "")
    => /\ ret.sent = ret.n
       /\ ret.seq \in 1 .. Len(stream)
       /\ stream[ret.seq].id = ret.lastId
       /\ ret.last = "new"
            => /\ ret.seq = Max(ret.wrote)
               /\ stream[ret.seq].subject = ret.subject
               /\ ret.seq > ret.sawLast
               /\ ret.seq > ret.prior

\* A batch of two events, stored after an earlier Append to the key returned.
C13_BatchAfterAppend ==
    /\ ret.op = "Append" /\ ret.err = "" /\ ret.n = 2
    /\ ret.prior > 0 /\ ret.last = "new"
    /\ Cardinality(ret.wrote) = 2

\* C14 (as stated): the successful Appends to a key that use ExpectSequence
\* are totally ordered: between the messages one of them stored the log of
\* the key holds no message that another of them stored.
C14_ConditionalAppendsOrdered ==
    (ret.op = "Append" /\ ret.err = "" /\ ret.expSeq # Nil /\ ret.wrote # {})
    => ~ \E k \in Min(ret.wrote) .. Max(ret.wrote) :
            /\ k \notin ret.wrote
            /\ stream[k].subject = ret.subject
            /\ stream[k].expLast # Nil
            /\ stream[k].retSeq > 0


\* C15 (as stated): an Append whose first event has no type name and, with a
\* registry, a payload of a shape never registered fails with
\* ErrEventTypeRequired or ErrNoTypeForStruct without any publish; without a
\* registry it fails with ErrEventTypeRequired.
C15_TypeRequired ==
    (/\ ret.op = "Append" /\ ret.i = 1
     /\ ret.input.Type = "" /\ ret.input.Data # ""
     /\ ret.types => Lookup(ret.input.Data).err # "")
    => /\ ret.sent = 0
       /\ ret.err \in {ErrEventTypeRequired, ErrNoTypeForStruct}
       /\ ~ret.types => ret.err = ErrEventTypeRequired


\* C16: with a registry, every stored message carries as type name the
\* registered name of its payload's shape, whether the caller left Type empty
\* or supplied that name; and an event with an explicit Type that is not the
\* registered name of its payload makes Append fail with no publish for that
\* event (one publish for each event before it, none for it).
C16_TypeResolved ==
    /\ \A k \in 1 .. Len(stream) :
          stream[k].codec = "json"
          => /\ stream[k].type = Lookup(stream[k].in.Data).name
             /\ stream[k].in.Type \in {"", stream[k].type}
    /\ (/\ ret.op = "Append" /\ ret.types
        /\ ret.input.Data # "" /\ Lookup(ret.input.Data).err = ""
        /\ ret.input.Type \notin {"", Lookup(ret.input.Data).name})
       => /\ ret.err = ErrWrongType
          /\ ret.sent = ret.i - 1
          /\ ret.last = "invalid"

\* The second event of a batch is refused for its type name after an event
\* without type name and one with the right type name were stored.
C16_WrongTypeRefused ==
    /\ ret.op = "Append" /\ ret.err = ErrWrongType /\ ret.i = 2 /\ ret.sent = 1
    /\ \E k \in 1 .. Len(stream) : stream[k].in.Type = "" /\ stream[k].type = "order-placed"
    /\ \E k \in 1 .. Len(stream) : stream[k].in.Type = "order-placed"


\* The identities callers supply.
SuppliedIds == {e.ID : e \in TypedEvents \cup BareEvents} \ {""}

\* C17: every stored event has the identity and the time its caller
\* supplied, unchanged, or, where the caller left them unset, an identity
\* that is not empty, not one a caller supplies and not that of another
\* stored event, and the clock's current time; so no stored event has an
\* empty ID or a zero Time.
C17_IdAndTimeDefaults ==
    \A k \in 1 .. Len(stream) :
        /\ stream[k].id # ""
        /\ ParseTime(stream[k].time).err = ""
        /\ ParseTime(stream[k].time).t # ""
        /\ IF stream[k].in.ID # "" THEN stream[k].id = stream[k].in.ID
           ELSE /\ stream[k].id \notin SuppliedIds
                /\ \A j \in 1 .. Len(stream) : stream[j].id = stream[k].id => j = k
        /\ IF stream[k].in.Time # "" THEN ParseTime(stream[k].time).t = stream[k].in.Time
           ELSE ParseTime(stream[k].time).t = Now

\* An event with neither identity nor time and one with both are stored.
C17_DefaultedAndSupplied ==
    /\ \E k \in 1 .. Len(stream) : stream[k].in.ID = "" /\ stream[k].in.Time = ""
    /\ \E k \in 1 .. Len(stream) : stream[k].in.ID = "a" /\ stream[k].in.Time = "t1"


\* C18: an Append that the collaborator refuses for the precondition returns
\* ErrSequenceConflict, one that fails on a publish for any other reason
\* returns that failure unchanged; while an Append runs it has submitted each
\* event so far exactly once, and when it returns it has submitted each event
\* up to the one it stopped at once (that one not at all if it was refused
\* before the publish) and none after a failure.
C18_PublishFailures ==
    /\ \A p \in Procs : proc[p].pc = "append" => proc[p].sent = proc[p].i
    /\ ret.op = "Append" /\ ret.n > 0
       => /\ ret.cause = ErrWrongLastSequence => ret.err = ErrSequenceConflict
          /\ ret.cause \notin {"", ErrWrongLastSequence} => ret.err = ret.cause
          /\ ret.sent = IF ret.last = "invalid" THEN ret.i - 1 ELSE ret.i
          /\ ret.err = "" => ret.i = ret.n
          /\ ret.err # "" => ret.last \in {"invalid", "conflict"}

\* The transport fails on the second publish of a batch.
C18_FailedOnSecondPublish ==
    /\ ret.op = "Append" /\ ret.cause = ErrConnectionClosed
    /\ ret.n = 2 /\ ret.i = 2 /\ ret.sent = 2 /\ ret.published = 1


\* C19: a Load that returns a failure, from whichever step (the lookup, the
\* opening of the subscription, the skipped or a fetched message, the
\* unpacking) and whatever it had drained, returns no event and sequence 0.
C19_FailedLoadReturnsNothing ==
    (ret.op = "Load" /\ ret.err # "") => ret.events = <<>> /\ ret.seq = 0

\* A Load is cancelled in the drain loop after it has drained an event.
C19_CancelledAfterDraining ==
    /\ ret.op = "Load" /\ ret.err = ErrCanceled
    /\ ret.stage = "load_next" /\ ret.drained >= 1


\* Whether the loaded event ev has the fields of the event e a caller passed
\* to Append (the registered name of the payload where e has no Type, the
\* clock's time where e has no Time, a generated identity where e has no ID).
SameEnvelope(ev, e, types) ==
    /\ IF e.ID # "" THEN ev.ID = e.ID ELSE ev.ID \notin {"", "a", "b"}
    /\ ev.Type = IF e.Type # "" \/ ~types THEN e.Type ELSE Lookup(e.Data).name
    /\ ev.Time = IF e.Time # "" THEN e.Time ELSE Now
    /\ ev.Meta = e.Meta
    /\ ev.Data = e.Data

\* C20 (as stated): the entry a successful Append returns the sequence of
\* unpacks to the fields of the last event of that Append, and every event a
\* Load returns carries as Sequence what the Append that stored it returned.
C20_RoundTripReturnedSequence ==
    /\ (ret.op = "Append" /\ ret.err = "")
       => SameEnvelope(unpackEvent(ret.types, stream[ret.seq], ret.seq).event,
                       ret.input, ret.types)
    /\ (ret.op = "Load" /\ ret.err = "")
       => \A j \in 1 .. Len(ret.events) :
             stream[ret.events[j].Sequence].retSeq > 0
             => ret.events[j].Sequence = stream[ret.events[j].Sequence].retSeq

\* C20 (amended): a successful Load of a key returns, for every entry of the
\* key up to its lookup, one event with the ID, Type, time, metadata entries
\* and payload of the event whose Append stored the entry, the subject it was
\* written to and the sequence the collaborator assigned to it, which is the
\* sequence that Append returned when the event was the last of its batch.
C20_RoundTrip ==
    (ret.op = "Load" /\ ret.err = "")
    => /\ {ret.events[j].Sequence : j \in 1 .. Len(ret.events)}
            = {k \in SeqsOf(stream, ret.subject) : k <= ret.lastMsg}
       /\ \A j \in 1 .. Len(ret.events) :
             \E k \in {ret.events[j].Sequence} :
                /\ SameEnvelope(ret.events[j], stream[k].in, ret.types)
                /\ ret.events[j].Subject = ret.subject
                /\ stream[k].subject = ret.subject
                /\ (stream[k].tail /\ stream[k].retSeq # Nil)
                     => stream[k].retSeq = k

\* A Load returns a batch of two events, the first with identity, time and
\* metadata supplied, the second with none of them.
C20_BatchLoaded ==
    /\ ret.op = "Load" /\ ret.err = "" /\ ret.types
    /\ \E j \in 1 .. Len(ret.events) - 1 :
          /\ ret.events[j].ID = "a" /\ ret.events[j].Meta = GeoMeta
          /\ ~stream[ret.events[j].Sequence].tail
          /\ stream[ret.events[j + 1].Sequence].in.ID = ""
          /\ stream[ret.events[j + 1].Sequence].retSeq = ret.events[j + 1].Sequence

\* ---- type registry claims
\* A descriptor as NewRegistry requires it: a well-formed name and an Init
\* function that returns a non-nil pointer to a struct which the codec c
\* marshals and unmarshals.
GoodDescriptor(c, name, f) ==
    /\ name # <<>>
    /\ nameRegex(name)
    /\ f.defined
    /\ f.product.kind = "value"
    /\ f.product.ptr
    /\ f.product.shape \in StructShapes
    /\ CodecMarshal(c, f.product).err = ""
    /\ CodecUnmarshal(c, CodecMarshal(c, f.product).b, f.product).err = ""

\* C21: construction with a known codec is all-or-nothing: one invalid
\* descriptor makes it fail with ErrTypeNotValid and return no registry,
\* otherwise every supplied name is registered with its descriptor.
C21_AllOrNothing ==
    (rout.op = "NewRegistry" /\ CodecOption(rout.codec).err = "") =>
        IF \E n \in DOMAIN rout.types :
              ~GoodDescriptor(CodecOption(rout.codec).codec, n, rout.types[n])
        THEN rout.err = ErrTypeNotValid /\ reg = NoRegistry
        ELSE /\ rout.err = ""
             /\ reg # NoRegistry
             /\ reg.types = rout.types

\* A construction refused at its second descriptor, the first one valid.
C21_RefusedAfterValid ==
    /\ rout.op = "NewRegistry"
    /\ rout.err = ErrTypeNotValid
    /\ Len(rout.order) = 2
    /\ GoodDescriptor(CodecOption(rout.codec).codec, rout.order[1],
                      rout.types[rout.order[1]])
    /\ reg = NoRegistry

\* The names under which the registry r holds the shape of v.
NamesOfShape(r, v) ==
    {n \in DOMAIN r.types : r.types[n].product.shape = v.shape}

\* C22: Lookup of a value whose shape is registered returns a name
\* registered for that shape, the same name for the struct value and for
\* the pointer to it; Lookup of any other value fails with
\* ErrNoTypeForStruct.
C22_LookupUniform ==
    rout.op = "Lookup" =>
        IF NamesOfShape(reg, rout.v) # {}
        THEN /\ rout.err = ""
             /\ rout.name \in NamesOfShape(reg, rout.v)
             /\ \A ptr \in BOOLEAN :
                   LookupIn(reg, [rout.v EXCEPT !.ptr = ptr]).name = rout.name
        ELSE rout.err = ErrNoTypeForStruct

\* A struct value, not a pointer, resolved to its registered name.
C22_StructValueResolved ==
    /\ rout.op = "Lookup"
    /\ ~rout.v.ptr
    /\ rout.err = ""
    /\ rout.name \in DOMAIN reg.types

\* C23: Init fails with ErrTypeNotRegistered for an unknown name and
\* otherwise returns a value allocated by this call, different from every
\* value handed out before; Marshal and Unmarshal return Lookup's error
\* without a call of the codec for a value of an unregistered shape, and
\* call the codec once otherwise.
C23_InitAndLookupFirst ==
    /\ rout.op = "Init" =>
          IF rout.t \notin DOMAIN reg.types
          THEN rout.err = ErrTypeNotRegistered /\ rout.v = NilValue
          ELSE /\ rout.err = ""
               /\ rout.v.shape = reg.types[rout.t].product.shape
               /\ rout.v.addr = heap
               /\ heap > 0
    /\ rout.op \in {"Marshal", "Unmarshal"} =>
          IF NamesOfShape(reg, rout.v) = {}
          THEN rout.err = ErrNoTypeForStruct /\ rout.calls = 0
          ELSE rout.calls = 1

\* The second successful Init on one registry.
C23_SecondInit ==
    /\ rout.op = "Init"
    /\ rout.err = ""
    /\ heap = 2

\* C24: a pointer to a value of a registered type marshals without error,
\* and unmarshalling the bytes Marshal returned into Init of the type's name
\* yields a value of the same shape and content.  UnmarshalType decodes
\* into what Init returns, and the json codec assigns only the fields the
\* bytes name: the empty message comes back with the defaults of an Init
\* that sets some.
C24_MarshalRoundTrip ==
    /\ (rout.op = "Marshal" /\ rout.v.ptr /\ NamesOfShape(reg, rout.v) # {}) =>
          rout.err = ""
    /\ rout.op = "UnmarshalType" =>
          /\ rout.err = ""
          /\ rout.out.shape = rout.v.shape
          /\ rout.out.val = rout.v.val
          /\ rout.out.addr # rout.v.addr

\* C25: no step of Append, Load or Evolve changes an EventStore handle or
\* its Rita configuration, and what a call decides follows from the stream
\* alone: a conditional Append of a new identity succeeds exactly when the
\* sequence it asserts is the key's last sequence in the stream at its first
\* publish, whatever its caller's earlier Load on the same handle returned,
\* and a Load returns the key's last sequence in the stream at its lookup.
C25_HandleImmutable ==
    /\ [][store' = store]_vars
    /\ [](/\ store = [h \in {HandleOf(p) : p \in Procs} |-> EventStore(h)]
          /\ (ret.op = "Append" /\ ret.expSeq # Nil /\ ret.first # "dup") =>
                (ret.err = "" <=> ret.sawLast = ret.expSeq)
          /\ (ret.op = "Load" /\ ret.err = "" /\ ret.afterSeq = Nil) =>
                ret.seq = LastAt(stream, ret.subject, ret.snapLen))

\* A caller's conditional Append succeeded with a sequence other than the
\* one its own Load returned before, another caller having appended through
\* the same handle in between.
C25_DecidedByStream ==
    /\ ret.op = "Append"
    /\ ret.basis # Nil
    /\ ret.expSeq # Nil
    /\ ret.expSeq # ret.basis
    /\ ret.intervened
    /\ ret.err = ""
    /\ ret.first = "new"

\* C26: every stream configuration Create or Update submits names the
\* store, denies deletion and denies purging whatever the caller's config
\* holds, and Create with a nil config or a config without subjects submits
\* the one subject "<name>.>".
C26_DenyDeleteAndPurge ==
    (admin.op \in {"Create", "Update"} /\ admin.sent # NoSubmit) =>
        /\ admin.sent.Name = StreamName
        /\ admin.sent.DenyDelete
        /\ admin.sent.DenyPurge
        /\ (admin.op = "Create" /\ (admin.config.nil \/ admin.config.Subjects = <<>>)) =>
              admin.sent.Subjects = <<"orders.>">>
        /\ (admin.op = "Create" /\ ~admin.config.nil /\ admin.config.Subjects # <<>>) =>
              admin.sent.Subjects = admin.config.Subjects

\* Create with a config that names no subjects submitted the default one.
C26_DefaultSubject ==
    /\ admin.op = "Create"
    /\ ~admin.config.nil
    /\ admin.config.Subjects = <<>>
    /\ admin.config.Storage = "memory"
    /\ admin.sent.Subjects = <<"orders.>">>
    /\ admin.sent.DenyPurge

\* The sequences of the key's messages a Load has to read: those up to the
\* last message it looked up.
LoadRange(s, r) == {k \in SeqsOf(s, r.subject) : k <= r.lastMsg}

\* C27: a Load decodes every message with the codec its own codec header
\* names: when every message it reads names a known codec it returns them
\* all, each with the data that codec decodes from the body; when one of
\* them names no known codec the Load fails with ErrCodecNotRegistered and
\* returns no events and no sequence.
C27_CodecOfHeader ==
    (ret.op = "Load" /\ ret.afterSeq = Nil) =>
        IF \E k \in LoadRange(stream, ret) : stream[k].codec \notin Codecs
        THEN ret.err = ErrCodecNotRegistered /\ ret.events = <<>> /\ ret.seq = 0
        ELSE /\ ret.err = ""
             /\ Len(ret.events) = Cardinality(LoadRange(stream, ret))
             /\ \A j \in 1 .. Len(ret.events) :
                   /\ ret.events[j].Sequence \in LoadRange(stream, ret)
                   /\ stream[ret.events[j].Sequence].data =
                         <<stream[ret.events[j].Sequence].codec, ret.events[j].Data>>

\* A Load failed at a message of an unknown codec after it had decoded a
\* message written with the msgpack codec.
C27_UnknownCodecAfterMsgpack ==
    /\ ret.op = "Load"
    /\ ret.err = ErrCodecNotRegistered
    /\ ret.drained >= 1
    /\ ret.events = <<>>
    /\ \E k \in LoadRange(stream, ret) : stream[k].codec = "msgpack"

\* C28: a successful Append of a non-empty batch returns the sequence of
\* the entry the stream holds for the identity of the batch's last event;
\* when every event of the batch was stored as a new entry, that is the
\* largest sequence the call wrote, the call wrote one entry per event
\* under its key, the batch's last event after all its others, and on an
\* empty stream the returned sequence is the size of the batch.
C28_BatchReturnsLast ==
    (ret.op = "Append" /\ ret.err = "" /\ ret.n > 0) =>
        /\ ret.seq \in 1 .. Len(stream)
        /\ stream[ret.seq].id = ret.lastId
        /\ ret.published = ret.n =>
              /\ ret.seq = Max(ret.wrote)
              /\ Cardinality(ret.wrote) = ret.n
              /\ \A k \in ret.wrote : stream[k].subject = ret.subject
              /\ \A k \in ret.wrote : stream[k].tail <=> k = Max(ret.wrote)
              /\ Len(stream) = ret.n => ret.seq = ret.n

\* A batch of the largest size, all of it new, stored on an empty stream.
C28_WholeBatchOnEmptyStore ==
    /\ ret.op = "Append"
    /\ ret.err = ""
    /\ ret.n = MaxBatch
    /\ ret.published = ret.n
    /\ Len(stream) = ret.n
    /\ ret.seq = ret.n

\* A publish request of an Append asserting expSeq (Nil for none) as the
\* store has to send it.
PubAsRequired(pub, expSeq) ==
    pub # NoPub =>
        /\ pub.eventId # ""
        /\ pub.msgId = pub.eventId
        /\ pub.expStream = StreamName
        /\ pub.expLast = IF pub.i = 0 THEN expSeq ELSE Nil

\* C29: of the publishes of an Append only that of the first event of the
\* batch carries the expected last sequence of the key the caller asserted
\* (none without ExpectSequence), that of every later event carries none,
\* and every publish carries its event's identity as message id and the
\* store's name as expected stream.
C29_PublishOptions ==
    /\ \A p \in Procs : proc[p].op = "Append" => PubAsRequired(proc[p].pub, proc[p].expSeq)
    /\ ret.op = "Append" => PubAsRequired(ret.pub, ret.expSeq)

\* A batch Append with ExpectSequence returned after publishing its second
\* event without the precondition.
C29_SecondWithoutPrecondition ==
    /\ ret.op = "Append"
    /\ ret.err = ""
    /\ ret.expSeq # Nil
    /\ ret.n = 2
    /\ ret.pub.i = 1
    /\ ret.pub.expLast = Nil
    /\ ret.pub.expStream = StreamName

\* C30: a Load with AfterSequence(N), N smaller than the key's latest
\* sequence (N = 0 and N the sequence of another key's event included),
\* succeeds and returns exactly the key's events with a sequence greater
\* than N, in log order.
C30_LoadAfterAnySequence ==
    (/\ ret.op = "Load" /\ ret.afterSeq # Nil
     /\ ret.afterSeq < LastAt(stream, ret.subject, ret.snapLen)) =>
        /\ ret.err = ""
        /\ ret.events =
              Stored(stream, ret.subject, ret.afterSeq,
                     LastAt(stream, ret.subject, ret.snapLen))

\* C31: a Load whose context is never cancelled returns, whatever its
\* afterSequence and whatever is appended meanwhile, the consumer delivering
\* every stored message of the subject in order.
C31_LoadReturns == (proc[Reader].pc # "idle") ~> (proc[Reader].pc = "idle")

\* C32: an Append that returns ErrSequenceConflict has stored no message,
\* whatever the size of its batch: the conflict is that of its first publish.
C32_ConflictAddsNothing ==
    (ret.op = "Append" /\ ret.err = ErrSequenceConflict)
       => /\ ret.wrote = {}
          /\ ret.published = 0
          /\ ret.i = 1

\* A batch of two refused with ErrSequenceConflict on a key that has events.
C32_BatchRefused ==
    /\ ret.op = "Append" /\ ret.err = ErrSequenceConflict
    /\ ret.n = 2
    /\ SeqsOf(stream, ret.subject) # {}

\* The n greatest elements of a set of sequences.
Greatest(S, n) == {k \in S : Cardinality({j \in S : j > k}) < n}

\* The entries of the stream that carry an identity.
EntriesOf(id) == {k \in 1 .. Len(stream) : stream[k].id = id}

\* The entries a failed Append may have left unacknowledged: those of the
\* identity it published last, when that publish failed on the transport.
Unacknowledged(r) == IF r.cause \in Faults THEN EntriesOf(r.pub.msgId) ELSE {}

\* C33 as stated: an Append that fails at the event of position i (counted
\* from 0) has published the events before it and nothing else: it returns
\* sequence 0 with the error, and the key's latest messages are the i
\* messages the call stored and had acknowledged.
C33_NothingFromFailedPosition ==
    (ret.op = "Append" /\ ret.n > 0 /\ ret.err # "")
       => /\ ret.seq = 0
          /\ ret.published = ret.i - 1
          /\ ret.wrote = Greatest(SeqsOf(stream, ret.subject), ret.i - 1)

\* C33: an Append that fails at the event of position i (counted from 0)
\* returns sequence 0 with the error; every publish before that event was
\* acknowledged and no event after it was submitted; apart from the failing
\* event the key's latest messages are the ones the call stored, and the
\* failing event has an entry, a single one after those, only if its
\* publish failed on the transport.
C33_PrefixEffect ==
    (ret.op = "Append" /\ ret.n > 0 /\ ret.err # "")
       => /\ ret.seq = 0
          /\ ret.i <= ret.n
          /\ ret.last \in {"invalid", "conflict"}
          /\ ret.sent = IF ret.last = "invalid" THEN ret.i - 1 ELSE ret.i
          /\ ret.published = ret.i - 1
          /\ Cardinality(Unacknowledged(ret)) <= 1
          /\ \A k \in Unacknowledged(ret) :
                /\ stream[k].subject = ret.subject
                /\ \A j \in ret.wrote : j < k
          /\ ret.wrote =
                Greatest(SeqsOf(stream, ret.subject) \ Unacknowledged(ret), ret.i - 1)

\* A batch of two whose second publish failed on the transport after the
\* stream had stored the event.
C33_FailedAtSecond ==
    /\ ret.op = "Append" /\ ret.err = ErrConnectionClosed
    /\ ret.n = 2 /\ ret.i = 2
    /\ ret.wrote # {}
    /\ Unacknowledged(ret) # {}

\* C34: an Append of an empty batch completes without fault: it returns a
\* sequence and an error value, having published nothing.
C34_EmptyBatchCompletes ==
    (ret.op = "Append" /\ ret.n = 0) => ret.err # ErrNilDeref

\* C35: when a Load has returned, with events or with an error, no
\* subscription it opened is left open.
C35_SubscriptionsReleased ==
    ret.op = "Load" => OpenSubscriptions(ret) = 0

\* C36: a Load of a store with a registry returns no event whose payload the
\* codec of its message failed to decode: such a Load returns the error.
C36_DecodeErrorReturned ==
    (ret.op = "Load" /\ ret.err = "")
       => \A j \in 1 .. Len(ret.events) :
             LET m == stream[ret.events[j].Sequence]
             IN  UnmarshalData(codecOfHeader(m), m.data, RegistryInit(m.type).v).err = ""

\* C37: an identity is stored once in the stream of a store, whatever the
\* keys: an Append of a single event whose identity is stored under another
\* key stores nothing, leaves its own key without that identity and returns
\* the sequence of the message stored under the other key.
C37_IdentityAcrossKeys ==
    /\ \A j, k \in 1 .. Len(stream) :
          stream[j].id = stream[k].id => j = k
    /\ \A k \in 1 .. Len(stream) :
          (/\ ret.op = "Append" /\ ret.err = "" /\ ret.n = 1
           /\ stream[k].id = ret.lastId
           /\ stream[k].subject # ret.subject)
             => /\ ret.first = "dup"
                /\ ret.wrote = {}
                /\ ret.seq = k
                /\ \A q \in SeqsOf(stream, ret.subject) : stream[q].id # ret.lastId

\* An identity stored under one key was appended to another key, also with
\* the assertion that the other key is empty.
C37_RepeatedUnderOtherKey ==
    /\ ret.op = "Append" /\ ret.err = "" /\ ret.n = 1
    /\ ret.expSeq = 0
    /\ ret.lastId = "a"
    /\ \E k \in 1 .. Len(stream) : stream[k].id = "a" /\ stream[k].subject # ret.subject
    /\ SeqsOf(stream, ret.subject) = {}

\* C38: an event that has passed wrapEvent has its ID, Type and Time set on
\* the caller's value, whether its publish succeeded or failed, and a given
\* ID is kept; the identity is the one that was published, it has at most one
\* entry in the stream, and an Append of a value that carries a generated
\* identity from an earlier Append returns the sequence of its only entry.
C38_CompletedInPlace ==
    (ret.op = "Append" /\ ret.n = 1 /\ ret.last # "invalid")
       => /\ ret.held.ID # "" /\ ret.held.Type # "" /\ ret.held.Time # ""
          /\ ret.input.ID # "" => ret.held.ID = ret.input.ID
          /\ ret.pub.msgId = ret.held.ID
          /\ Cardinality(EntriesOf(ret.held.ID)) <= 1
          /\ (ret.err = "" /\ ret.input.ID # "") => EntriesOf(ret.input.ID) = {ret.seq}

\* The value of an Append whose publish failed was appended again and is
\* stored once: the first publish had reached the stream unacknowledged.
C38_ResubmittedAfterFailure ==
    /\ ret.op = "Append" /\ ret.err = ""
    /\ ret.input.ID # "" /\ ret.input.Time # ""
    /\ ret.first = "dup"
    /\ EntriesOf(ret.input.ID) = {ret.seq}
    /\ stream[ret.seq].retSeq = Nil

\* C39: in a registry NewRegistry returned, Lookup of the value Init makes for
\* a registered name returns that name, also when two names are registered
\* with functions that make values of one struct type.
C39_IndexesInverse ==
    reg # NoRegistry =>
        \A n \in DOMAIN reg.types :
            /\ InitIn(reg, n, heap + 1).err = ""
            /\ LookupIn(reg, InitIn(reg, n, heap + 1).v).name = n

====
